---- MODULE Spec2Model ----
(***************************************************************************)
(* A model of the Zen interpreter: regex lexer, Pratt parser, tree-walking *)
(* evaluator, environments and the module manager.                         *)
(*                                                                         *)
(* Text (source, identifiers, string values, import paths) is a sequence   *)
(* of one-character strings, so that the code's character-level            *)
(* operations (keyword lookup, name[0].isupper(), endswith('.zen'), ...)   *)
(* are computed and not tabulated.  Positions are 0-based as in the code:  *)
(* the character at position p of text t is t[p + 1].                      *)
(***************************************************************************)
EXTENDS Integers, Sequences, FiniteSets, TLC

VARIABLES
    heap,            \* all Environment objects ever created, by identity
    next_id,         \* allocation counter standing for object identity
    loaded_modules,  \* module_manager.loaded_modules
    loading_stack,   \* module_manager.loading_stack
    opened,          \* open(file_path) calls of load_module, in order
    stdout,          \* lines written by the print builtin, in order
    source,          \* index in Sources of the text of the last run, 0 before it
    errors,          \* parser.errors of the last run
    program,         \* Program returned by the parser in the last run
    result,          \* object returned by the evaluator in the last run
    runs,            \* number of inputs run in this session
    hung,            \* TRUE once a run has entered a loop it never leaves
    tokens,          \* Parser.tokens
    current_pos,     \* Parser.current_pos
    statements,      \* the statements list local to parse_program
    parse_errors,    \* Parser.errors while parse_program is running
    ppc,             \* where parse_program is: "loop", "returned"
    regex_lexer,     \* the RegexLexer object while tokenize is running
    disk,            \* the files there are, absolute path -> text
    resolved         \* the last path resolved and the file found for it

vars == <<heap, next_id, loaded_modules, loading_stack, opened, stdout,
          source, errors, program, result, runs, hung,
          tokens, current_pos, statements, parse_errors, ppc,
          regex_lexer, disk, resolved>>

\* The value of a function at the one element of its domain:
\* Let([x \in {v} |-> e]) is e with x standing for v, v evaluated once.
Let(f) == f[CHOOSE x \in DOMAIN f : TRUE]

(***************************************************************************)
(* Tokens (zen_token.py)                                                   *)
(***************************************************************************)
None == [type |-> "None"]

Token(type, literal, line, column) ==
    [type |-> type, literal |-> literal, line |-> line, column |-> column]

LowerCase == {"a","b","c","d","e","f","g","h","i","j","k","l","m",
              "n","o","p","q","r","s","t","u","v","w","x","y","z"}
UpperCase == {"A","B","C","D","E","F","G","H","I","J","K","L","M",
              "N","O","P","Q","R","S","T","U","V","W","X","Y","Z"}
Digits == {"0","1","2","3","4","5","6","7","8","9"}

KEYWORDS ==
    << [word |-> <<"b","a","g">>,             type |-> "BAG"],
       [word |-> <<"l","o","a","d">>,         type |-> "LOAD"],
       [word |-> <<"f","x">>,                 type |-> "FX"],
       [word |-> <<"c","l","x">>,             type |-> "CLX"],
       [word |-> <<"r","e","t","u","r","n">>, type |-> "RETURN"],
       [word |-> <<"i","f">>,                 type |-> "IF"],
       [word |-> <<"e","l","s","e">>,         type |-> "ELSE"],
       [word |-> <<"f","o","r">>,             type |-> "FOR"],
       [word |-> <<"t","r","u","e">>,         type |-> "TRUE"],
       [word |-> <<"f","a","l","s","e">>,     type |-> "FALSE"],
       [word |-> <<"n","i","l">>,             type |-> "NIL"],
       [word |-> <<"s","e","l","f">>,         type |-> "SELF"] >>

lookup_ident(ident) ==
    IF \E i \in 1..Len(KEYWORDS) : KEYWORDS[i].word = ident
    THEN KEYWORDS[CHOOSE i \in 1..Len(KEYWORDS) : KEYWORDS[i].word = ident].type
    ELSE "IDENT"

(***************************************************************************)
(* Lexer (lexer/regex_lexer.py)                                            *)
(***************************************************************************)
\* The rules of the master regex, in order. re names the pattern; a rule
\* with re = "literal" matches exactly the characters of lit.
TOKEN_RULES ==
    << [re |-> "line_comment",  lit |-> <<>>, token_type |-> "None",    processor |-> "None"],
       [re |-> "block_comment", lit |-> <<>>, token_type |-> "None",    processor |-> "None"],
       [re |-> "literal", lit |-> <<"\n">>,   token_type |-> "NEWLINE", processor |-> "None"],
       [re |-> "blank",         lit |-> <<>>, token_type |-> "None",    processor |-> "None"],
       [re |-> "string",        lit |-> <<>>, token_type |-> "STRING",  processor |-> "_process_string"],
       [re |-> "digits",        lit |-> <<>>, token_type |-> "INT",     processor |-> "_process_int"],
       [re |-> "literal", lit |-> <<"=","=">>, token_type |-> "EQ",     processor |-> "None"],
       [re |-> "literal", lit |-> <<"!","=">>, token_type |-> "NEQ",    processor |-> "None"],
       [re |-> "literal", lit |-> <<"<","=">>, token_type |-> "LTE",    processor |-> "None"],
       [re |-> "literal", lit |-> <<">","=">>, token_type |-> "GTE",    processor |-> "None"],
       [re |-> "literal", lit |-> <<"&","&">>, token_type |-> "AND",    processor |-> "None"],
       [re |-> "literal", lit |-> <<"|","|">>, token_type |-> "OR",     processor |-> "None"],
       [re |-> "literal", lit |-> <<"+">>,    token_type |-> "PLUS",    processor |-> "None"],
       [re |-> "literal", lit |-> <<"-">>,    token_type |-> "MINUS",   processor |-> "None"],
       [re |-> "literal", lit |-> <<"*">>,    token_type |-> "MULTIPLY", processor |-> "None"],
       [re |-> "literal", lit |-> <<"/">>,    token_type |-> "DIVIDE",  processor |-> "None"],
       [re |-> "literal", lit |-> <<"=">>,    token_type |-> "ASSIGN",  processor |-> "None"],
       [re |-> "literal", lit |-> <<"<">>,    token_type |-> "LT",      processor |-> "None"],
       [re |-> "literal", lit |-> <<">">>,    token_type |-> "GT",      processor |-> "None"],
       [re |-> "literal", lit |-> <<"!">>,    token_type |-> "NOT",     processor |-> "None"],
       [re |-> "literal", lit |-> <<"(">>,    token_type |-> "LPAREN",  processor |-> "None"],
       [re |-> "literal", lit |-> <<")">>,    token_type |-> "RPAREN",  processor |-> "None"],
       [re |-> "literal", lit |-> <<"{">>,    token_type |-> "LBRACE",  processor |-> "None"],
       [re |-> "literal", lit |-> <<"}">>,    token_type |-> "RBRACE",  processor |-> "None"],
       [re |-> "literal", lit |-> <<",">>,    token_type |-> "COMMA",   processor |-> "None"],
       [re |-> "literal", lit |-> <<".">>,    token_type |-> "DOT",     processor |-> "None"],
       [re |-> "identifier",    lit |-> <<>>, token_type |-> "IDENT_OR_KEYWORD", processor |-> "_process_identifier"] >>

\* text[from .. to) with 0-based bounds, as the Python slice text[from:to].
Slice(text, from, to) == SubSeq(text, from + 1, to)

\* End of the longest run of characters of set S starting at position i.
RECURSIVE ScanWhile(_, _, _)
ScanWhile(text, i, S) ==
    IF i < Len(text) /\ text[i + 1] \in S THEN ScanWhile(text, i + 1, S) ELSE i

\* End of the longest run of characters outside S starting at position i.
RECURSIVE ScanUntil(_, _, _)
ScanUntil(text, i, S) ==
    IF i < Len(text) /\ text[i + 1] \notin S THEN ScanUntil(text, i + 1, S) ELSE i

\* First position >= i at which lit occurs in text, or -1.
RECURSIVE Find(_, _, _)
Find(text, lit, i) ==
    IF i + Len(lit) > Len(text) THEN -1
    ELSE IF Slice(text, i, i + Len(lit)) = lit THEN i
    ELSE Find(text, lit, i + 1)

\* The body of a string literal, "(?:[^"\\]|\\.)*", scanned from position
\* i (just after the opening quote): the position after the closing quote,
\* or -1 when the text ends first or a backslash is followed by a newline.
RECURSIVE ScanString(_, _)
ScanString(text, i) ==
    IF i >= Len(text) THEN -1
    ELSE IF text[i + 1] = "\"" THEN i + 1
    ELSE IF text[i + 1] = "\\"
         THEN IF i + 1 < Len(text) /\ text[i + 2] # "\n"
              THEN ScanString(text, i + 2)
              ELSE -1
    ELSE ScanString(text, i + 1)

\* End position of the match of one rule at position pos, or -1.
RuleEnd(rule, text, pos) ==
    LET starts(lit) == /\ pos + Len(lit) <= Len(text)
                       /\ Slice(text, pos, pos + Len(lit)) = lit
    IN  CASE rule.re = "literal" ->
               IF starts(rule.lit) THEN pos + Len(rule.lit) ELSE -1
          [] rule.re = "line_comment" ->
               IF starts(<<"/","/">>) THEN ScanUntil(text, pos + 2, {"\n"}) ELSE -1
          [] rule.re = "block_comment" ->
               IF starts(<<"/","*">>)
               THEN LET e == Find(text, <<"*","/">>, pos + 2)
                    IN  IF e = -1 THEN -1 ELSE e + 2
               ELSE -1
          [] rule.re = "blank" ->
               LET e == ScanWhile(text, pos, {" ", "\t", "\r"})
               IN  IF e > pos THEN e ELSE -1
          [] rule.re = "string" ->
               IF starts(<<"\"">>) THEN ScanString(text, pos + 1) ELSE -1
          [] rule.re = "digits" ->
               LET e == ScanWhile(text, pos, Digits)
               IN  IF e > pos THEN e ELSE -1
          [] rule.re = "identifier" ->
               IF pos < Len(text) /\ text[pos + 1] \in LowerCase \cup UpperCase \cup {"_"}
               THEN ScanWhile(text, pos + 1, LowerCase \cup UpperCase \cup Digits \cup {"_"})
               ELSE -1

\* master_regex.match(text, pos): the first rule that matches wins.
MasterMatch(text, pos) ==
    LET hits == {i \in 1..Len(TOKEN_RULES) : RuleEnd(TOKEN_RULES[i], text, pos) # -1}
    IN  IF hits = {} THEN [group |-> 0, end |-> pos]
        ELSE LET g == CHOOSE i \in hits : \A j \in hits : i <= j
             IN  [group |-> g, end |-> RuleEnd(TOKEN_RULES[g], text, pos)]

\* _process_string that drops the backslash of an unknown escape.
RECURSIVE ProcessEscapes_dropping(_, _)
ProcessEscapes_dropping(content, i) ==
    IF i >= Len(content) THEN <<>>
    ELSE IF content[i + 1] = "\\" /\ i + 1 < Len(content)
         THEN IF content[i + 2] \in {"n", "t", "r", "\\", "\""}
              THEN <<CASE content[i + 2] = "n" -> "\n" [] content[i + 2] = "t" -> "\t"
                       [] content[i + 2] = "r" -> "\r" [] OTHER -> content[i + 2]>>
                   \o ProcessEscapes_dropping(content, i + 2)
              ELSE ProcessEscapes_dropping(content, i + 1)
         ELSE <<content[i + 1]>> \o ProcessEscapes_dropping(content, i + 1)

\* The escapes table of _process_string: second character -> replacement.
Escapes == [c \in {"n", "t", "r", "\\", "\""} |->
              CASE c = "n" -> "\n" [] c = "t" -> "\t" [] c = "r" -> "\r"
                [] c = "\\" -> "\\" [] c = "\"" -> "\""]

RECURSIVE ProcessEscapes(_, _)
ProcessEscapes(content, i) ==
    IF i >= Len(content) THEN <<>>
    ELSE IF content[i + 1] = "\\" /\ i + 1 < Len(content)
         THEN IF content[i + 2] \in DOMAIN Escapes
              THEN <<Escapes[content[i + 2]]>> \o ProcessEscapes(content, i + 2)
              ELSE <<content[i + 1]>> \o ProcessEscapes(content, i + 1)
         ELSE <<content[i + 1]>> \o ProcessEscapes(content, i + 1)

_process_string(text) == ProcessEscapes(Slice(text, 1, Len(text) - 1), 0)

DigitValue(c) ==
    CASE c = "0" -> 0 [] c = "1" -> 1 [] c = "2" -> 2 [] c = "3" -> 3 [] c = "4" -> 4
      [] c = "5" -> 5 [] c = "6" -> 6 [] c = "7" -> 7 [] c = "8" -> 8 [] c = "9" -> 9

RECURSIVE _process_int(_)
_process_int(text) ==
    IF Len(text) = 0 THEN 0
    ELSE 10 * _process_int(SubSeq(text, 1, Len(text) - 1)) + DigitValue(text[Len(text)])

\* One call of _next_token on lexer state L; raised is set when the code
\* raises LexerError.
_next_token_with_keyword_check(L) ==
    LET m == MasterMatch(L.input_text, L.position)
    IN  IF m.group = 0
        THEN [L EXCEPT !.raised = TRUE]
        ELSE
        LET matched_text == Slice(L.input_text, L.position, m.end)
            token_type == TOKEN_RULES[m.group].token_type
            processor == TOKEN_RULES[m.group].processor
            literal == CASE processor = "_process_string" -> _process_string(matched_text)
                         [] processor = "_process_int" -> _process_int(matched_text)
                         [] OTHER -> matched_text
            toks == CASE token_type = "None" -> L.tokens
                      [] token_type = "NEWLINE" -> L.tokens
                      [] token_type = "IDENT_OR_KEYWORD" ->
                            Append(L.tokens, Token(lookup_ident(matched_text), matched_text,
                                                   L.line, L.column))
                      [] OTHER ->
                            Append(L.tokens, Token(token_type, literal, L.line, L.column))
        IN  [L EXCEPT !.tokens = toks,
                      !.line = IF token_type = "NEWLINE" THEN L.line + 1 ELSE L.line,
                      !.column = IF token_type = "NEWLINE" THEN 1
                                 ELSE L.column + Len(matched_text),
                      !.position = m.end]

RECURSIVE LexLoop(_)
LexLoop(L) ==
    IF L.raised \/ L.position >= Len(L.input_text) THEN L
    ELSE LexLoop(_next_token_with_keyword_check(L))

\* RegexLexer.tokenize: the final lexer state; when raised is FALSE its
\* tokens end with the EOF token.
tokenize(input_text) ==
    LET L == LexLoop([input_text |-> input_text, position |-> 0, line |-> 1,
                      column |-> 1, tokens |-> <<>>, raised |-> FALSE])
    IN  IF L.raised THEN L
        ELSE [L EXCEPT !.tokens = Append(L.tokens, Token("EOF", None, L.line, L.column))]

(***************************************************************************)
(* AST (zen_ast/ast.py)                                                    *)
(***************************************************************************)
Program(stmts) == [kind |-> "Program", statements |-> stmts]
PackageStatement(name) == [kind |-> "PackageStatement", name |-> name]
LoadStatement(imports) == [kind |-> "LoadStatement", imports |-> imports]
FunctionStatement(name, parameters, body) ==
    [kind |-> "FunctionStatement", name |-> name, parameters |-> parameters, body |-> body]
ClassStatement(name, methods) == [kind |-> "ClassStatement", name |-> name, methods |-> methods]
ReturnStatement(value) == [kind |-> "ReturnStatement", value |-> value]
ExpressionStatement(expression) == [kind |-> "ExpressionStatement", expression |-> expression]
AssignStatement(target, value) == [kind |-> "AssignStatement", target |-> target, value |-> value]
BlockStatement(stmts) == [kind |-> "BlockStatement", statements |-> stmts]
Identifier(value) == [kind |-> "Identifier", value |-> value]
IntegerLiteral(value) == [kind |-> "IntegerLiteral", value |-> value]
StringLiteral(value) == [kind |-> "StringLiteral", value |-> value]
BooleanLiteral(value) == [kind |-> "BooleanLiteral", value |-> value]
NilLiteral == [kind |-> "NilLiteral"]
SelfExpression == [kind |-> "SelfExpression"]
PrefixExpression(operator, right) ==
    [kind |-> "PrefixExpression", operator |-> operator, right |-> right]
InfixExpression(left, operator, right) ==
    [kind |-> "InfixExpression", left |-> left, operator |-> operator, right |-> right]
CallExpression(function, arguments) ==
    [kind |-> "CallExpression", function |-> function, arguments |-> arguments]
MemberAccessExpression(object, member) ==
    [kind |-> "MemberAccessExpression", object |-> object, member |-> member]

(***************************************************************************)
(* Parser (parser/parser.py)                                               *)
(*                                                                         *)
(* A parser state P is [tokens, current_pos, errors, hang].  Every parse   *)
(* method is an operator from P (and its arguments) to [node, p]: the node *)
(* it returns (None for Python's None) and the parser state it leaves.     *)
(* hang is set when a `while` loop of the code is entered in a state that  *)
(* its body does not change and its test does not leave: the call then     *)
(* never returns.                                                          *)
(***************************************************************************)
LOWEST == 1
ASSIGN == 2
OR == 3
AND == 4
EQUALS == 5
LESSGREATER == 6
SUM == 7
PRODUCT == 8
PREFIX == 9
CALL == 10
INDEX == 11

PRECEDENCES ==
    [t \in {"ASSIGN", "OR", "AND", "EQ", "NEQ", "LT", "GT", "LTE", "GTE",
            "PLUS", "MINUS", "MULTIPLY", "DIVIDE", "LPAREN", "DOT"} |->
       CASE t = "ASSIGN" -> ASSIGN
         [] t = "OR" -> OR
         [] t = "AND" -> AND
         [] t \in {"EQ", "NEQ"} -> EQUALS
         [] t \in {"LT", "GT", "LTE", "GTE"} -> LESSGREATER
         [] t \in {"PLUS", "MINUS"} -> SUM
         [] t \in {"MULTIPLY", "DIVIDE"} -> PRODUCT
         [] t = "LPAREN" -> CALL
         [] t = "DOT" -> INDEX]

\* Token types with a registered prefix / infix parse function.
prefix_parse_fns ==
    {"IDENT", "INT", "STRING", "TRUE", "FALSE", "NIL", "SELF", "MINUS", "NOT", "LPAREN"}
infix_parse_fns ==
    {"PLUS", "MINUS", "MULTIPLY", "DIVIDE", "EQ", "NEQ", "LT", "GT", "LTE", "GTE",
     "AND", "OR", "LPAREN", "DOT"}

Parser(toks) == [tokens |-> toks, current_pos |-> 0, errors |-> <<>>, hang |-> FALSE]

R(node, p) == [node |-> node, p |-> p]

_current_token(P) ==
    IF P.current_pos < Len(P.tokens) THEN P.tokens[P.current_pos + 1] ELSE None

_peek_token(P) ==
    IF P.current_pos + 1 < Len(P.tokens) THEN P.tokens[P.current_pos + 2] ELSE None

_advance(P) ==
    IF P.current_pos < Len(P.tokens) THEN [P EXCEPT !.current_pos = @ + 1] ELSE P

_current_token_is(P, token_type) ==
    LET token == _current_token(P) IN token # None /\ token.type = token_type

_peek_token_is(P, token_type) ==
    LET token == _peek_token(P) IN token # None /\ token.type = token_type

AddError(P, msg) == [P EXCEPT !.errors = Append(@, msg)]

_peek_error(P, token_type) ==
    LET peek == _peek_token(P)
    IN  IF peek # None
        THEN AddError(P, <<"Expected next token to be ", token_type, ", got ", peek.type, " instead">>)
        ELSE AddError(P, <<"Expected next token to be ", token_type, ", but reached EOF">>)

\* [ok, p]: the value returned and the parser state left.
_expect_peek(P, token_type) ==
    IF _peek_token_is(P, token_type)
    THEN [ok |-> TRUE, p |-> _advance(P)]
    ELSE [ok |-> FALSE, p |-> _peek_error(P, token_type)]

_current_precedence(P) ==
    LET token == _current_token(P)
    IN  IF token # None /\ token.type \in DOMAIN PRECEDENCES
        THEN PRECEDENCES[token.type] ELSE LOWEST

_peek_precedence(P) ==
    LET token == _peek_token(P)
    IN  IF token # None /\ token.type \in DOMAIN PRECEDENCES
        THEN PRECEDENCES[token.type] ELSE LOWEST

_parse_package_statement(P) ==
    Let([e \in {_expect_peek(P, "IDENT")} |->
        IF ~e.ok THEN R(None, e.p)
        ELSE R(PackageStatement(_current_token(e.p).literal), e.p)])

\* The `while True` loop of _parse_load_statement: [imports, p].
RECURSIVE LoadImportsLoop(_, _)
LoadImportsLoop(P, imports) ==
    IF _current_token_is(P, "STRING")
    THEN LET more == Append(imports, _current_token(P).literal)
         IN  IF _peek_token_is(P, "COMMA")
             THEN LoadImportsLoop(_advance(_advance(P)), more)
             ELSE IF _peek_token_is(P, "RPAREN")
             THEN [imports |-> more, p |-> _advance(P)]
             ELSE [imports |-> more, p |-> AddError(P, <<"Expected , or ) after import path">>)]
    ELSE [imports |-> imports,
          p |-> AddError(P, <<"Expected string literal in load statement">>)]

_parse_load_statement(P) ==
    Let([e \in {_expect_peek(P, "LPAREN")} |->
        IF ~e.ok THEN R(None, e.p)
        ELSE Let([P1 \in {_advance(e.p)} |->
                 IF _current_token_is(P1, "RPAREN") THEN R(LoadStatement(<<>>), P1)
                 ELSE Let([l \in {LoadImportsLoop(P1, <<>>)} |->
                          R(LoadStatement(l.imports), l.p)])])])

\* The `while True` loop of _parse_function_parameters: [params, p].
RECURSIVE ParametersLoop(_, _)
ParametersLoop(P, params) ==
    IF _current_token_is(P, "IDENT")
    THEN LET more == Append(params, _current_token(P).literal)
         IN  IF _peek_token_is(P, "COMMA")
             THEN ParametersLoop(_advance(_advance(P)), more)
             ELSE IF _peek_token_is(P, "RPAREN")
             THEN [params |-> more, p |-> _advance(P)]
             ELSE [params |-> more, p |-> AddError(P, <<"Expected , or ) after parameter">>)]
    ELSE [params |-> params, p |-> AddError(P, <<"Expected parameter name">>)]

_parse_function_parameters(P) ==
    Let([P1 \in {_advance(P)} |->
        IF _current_token_is(P1, "RPAREN") THEN [params |-> <<>>, p |-> P1]
        ELSE ParametersLoop(P1, <<>>)])

_parse_identifier(P) == R(Identifier(_current_token(P).literal), P)
_parse_integer_literal(P) == R(IntegerLiteral(_current_token(P).literal), P)
_parse_string_literal(P) == R(StringLiteral(_current_token(P).literal), P)
_parse_boolean_literal(P) == R(BooleanLiteral(_current_token(P).type = "TRUE"), P)
_parse_nil_literal(P) == R(NilLiteral, P)
_parse_self_expression(P) == R(SelfExpression, P)

RECURSIVE _parse_expression(_, _), ExpressionLoop(_, _, _), _parse_prefix_expression(_),
          _parse_grouped_expression(_), _parse_infix_expression(_, _),
          _parse_call_expression(_, _), ArgumentsLoop(_, _)

_parse_member_access_expression(P, object) ==
    Let([P1 \in {_advance(P)} |->
        IF ~_current_token_is(P1, "IDENT")
        THEN R(None, AddError(P1, <<"Expected identifier after .">>))
        ELSE R(MemberAccessExpression(object, _current_token(P1).literal), P1)])

_parse_expression(P, precedence) ==
    Let([token \in {_current_token(P)} |->
        IF token = None \/ token.type \notin prefix_parse_fns
        THEN R(None, AddError(P, <<"No prefix parse function for ",
                                   IF token # None THEN token.type ELSE "EOF">>))
        ELSE Let([l \in {CASE token.type = "IDENT" -> _parse_identifier(P)
                   [] token.type = "INT" -> _parse_integer_literal(P)
                   [] token.type = "STRING" -> _parse_string_literal(P)
                   [] token.type \in {"TRUE", "FALSE"} -> _parse_boolean_literal(P)
                   [] token.type = "NIL" -> _parse_nil_literal(P)
                   [] token.type = "SELF" -> _parse_self_expression(P)
                   [] token.type \in {"MINUS", "NOT"} -> _parse_prefix_expression(P)
                   [] token.type = "LPAREN" -> _parse_grouped_expression(P)} |-> ExpressionLoop(l.p, precedence, l.node)])])

\* The `while` loop of _parse_expression.
ExpressionLoop(P, precedence, left_expr) ==
    IF ~_peek_token_is(P, "EOF") /\ precedence < _peek_precedence(P)
    THEN Let([peek \in {_peek_token(P)} |->
             IF peek = None \/ peek.type \notin infix_parse_fns
             THEN R(left_expr, P)
             ELSE Let([r \in {CASE peek.type = "LPAREN" ->
                               _parse_call_expression(_advance(P), left_expr)
                        [] peek.type = "DOT" ->
                               _parse_member_access_expression(_advance(P), left_expr)
                        [] OTHER -> _parse_infix_expression(_advance(P), left_expr)} |-> ExpressionLoop(r.p, precedence, r.node)])])
    ELSE R(left_expr, P)

_parse_prefix_expression(P) ==
    Let([r \in {_parse_expression(_advance(P), PREFIX)} |->
        IF r.node = None THEN R(None, r.p)
        ELSE R(PrefixExpression(_current_token(P).literal, r.node), r.p)])

_parse_grouped_expression(P) ==
    Let([r \in {_parse_expression(_advance(P), LOWEST)} |->
        Let([e \in {_expect_peek(r.p, "RPAREN")} |->
            IF ~e.ok THEN R(None, e.p) ELSE R(r.node, e.p)])])

\* _parse_infix_expression that lets the right operand take operators of
\* the same precedence.
_parse_infix_expression_right(P, left) ==
    Let([r \in {_parse_expression(_advance(P), _current_precedence(P) - 1)} |->
        R(InfixExpression(left, _current_token(P).literal, r.node), r.p)])

_parse_infix_expression(P, left) ==
    Let([r \in {_parse_expression(_advance(P), _current_precedence(P))} |->
        R(InfixExpression(left, _current_token(P).literal, r.node), r.p)])

\* The `while True` loop of _parse_call_expression: [arguments, p].
ArgumentsLoop(P, arguments) ==
    Let([r \in {_parse_expression(P, LOWEST)} |->
        IF r.node # None
        THEN Let([more \in {Append(arguments, r.node)} |->
                 IF _peek_token_is(r.p, "COMMA")
                 THEN ArgumentsLoop(_advance(_advance(r.p)), more)
                 ELSE IF _peek_token_is(r.p, "RPAREN")
                 THEN [arguments |-> more, p |-> _advance(r.p)]
                 ELSE [arguments |-> more,
                       p |-> AddError(r.p, <<"Expected , or ) after argument">>)]])
        ELSE [arguments |-> arguments, p |-> r.p]])

_parse_call_expression(P, function) ==
    Let([P1 \in {_advance(P)} |->
        IF _current_token_is(P1, "RPAREN") THEN R(CallExpression(function, <<>>), P1)
        ELSE Let([a \in {ArgumentsLoop(P1, <<>>)} |->
                 R(CallExpression(function, a.arguments), a.p)])])

_parse_return_statement(P) ==
    Let([P1 \in {_advance(P)} |->
        IF _current_token_is(P1, "RBRACE") \/ _current_token_is(P1, "EOF")
        THEN R(ReturnStatement(None), P1)
        ELSE Let([r \in {_parse_expression(P1, LOWEST)} |->
                 R(ReturnStatement(r.node), r.p)])])

_parse_assignment_or_expression_statement(P) ==
    Let([x \in {_parse_expression(P, LOWEST)} |->
        IF x.node = None THEN R(None, x.p)
        ELSE IF _peek_token_is(x.p, "ASSIGN")
        THEN Let([v \in {_parse_expression(_advance(_advance(x.p)), LOWEST)} |->
                 IF v.node = None THEN R(None, v.p)
                 ELSE R(AssignStatement(x.node, v.node), v.p)])
        ELSE R(ExpressionStatement(x.node), x.p)])

RECURSIVE _parse_statement(_), _parse_block_statement(_), BlockLoop(_, _),
          _parse_function_statement(_), _parse_class_statement(_), ClassLoop(_, _)

_parse_statement(P) ==
    Let([token \in {_current_token(P)} |->
        IF token = None THEN R(None, P)
        ELSE CASE token.type = "BAG" -> _parse_package_statement(P)
               [] token.type = "LOAD" -> _parse_load_statement(P)
               [] token.type = "FX" -> _parse_function_statement(P)
               [] token.type = "CLX" -> _parse_class_statement(P)
               [] token.type = "RETURN" -> _parse_return_statement(P)
               [] token.type = "LBRACE" -> _parse_block_statement(P)
               [] OTHER -> _parse_assignment_or_expression_statement(P)])

\* The `while` loop of _parse_block_statement: [statements, p].  With the
\* cursor past the last token both tests of the loop condition are false
\* on None, _parse_statement returns None and _advance does nothing.
BlockLoop(P, stmts) ==
    IF P.hang THEN [statements |-> stmts, p |-> P]
    ELSE IF _current_token(P) = None
    THEN [statements |-> stmts, p |-> [P EXCEPT !.hang = TRUE]]
    ELSE IF ~(~_current_token_is(P, "RBRACE") /\ ~_current_token_is(P, "EOF"))
    THEN [statements |-> stmts, p |-> P]
    ELSE Let([s \in {_parse_statement(P)} |->
             BlockLoop(_advance(s.p),
                       IF s.node # None THEN Append(stmts, s.node) ELSE stmts)])

_parse_block_statement(P) ==
    Let([b \in {BlockLoop(_advance(P), <<>>)} |->
        R(BlockStatement(b.statements), b.p)])

_parse_function_statement(P) ==
    Let([e1 \in {_expect_peek(P, "IDENT")} |->
        IF ~e1.ok THEN R(None, e1.p)
        ELSE
        Let([e2 \in {_expect_peek(e1.p, "LPAREN")} |->
            IF ~e2.ok THEN R(None, e2.p)
            ELSE
            Let([ps \in {_parse_function_parameters(e2.p)} |->
                Let([e3 \in {_expect_peek(ps.p, "LBRACE")} |->
                    IF ~e3.ok THEN R(None, e3.p)
                    ELSE Let([body \in {_parse_block_statement(e3.p)} |->
                             R(FunctionStatement(_current_token(e1.p).literal,
                                                 ps.params, body.node), body.p)])])])])])

\* The `while` loop of _parse_class_statement: [methods, p].
ClassLoop(P, methods) ==
    IF P.hang THEN [methods |-> methods, p |-> P]
    ELSE IF _current_token(P) = None
    THEN [methods |-> methods, p |-> [P EXCEPT !.hang = TRUE]]
    ELSE IF ~(~_current_token_is(P, "RBRACE") /\ ~_current_token_is(P, "EOF"))
    THEN [methods |-> methods, p |-> P]
    ELSE IF _current_token_is(P, "FX")
    THEN Let([m \in {_parse_function_statement(P)} |->
             ClassLoop(_advance(m.p),
                       IF m.node # None THEN Append(methods, m.node) ELSE methods)])
    ELSE ClassLoop(_advance(P), methods)

_parse_class_statement(P) ==
    Let([e1 \in {_expect_peek(P, "IDENT")} |->
        IF ~e1.ok THEN R(None, e1.p)
        ELSE
        Let([e2 \in {_expect_peek(e1.p, "LBRACE")} |->
            IF ~e2.ok THEN R(None, e2.p)
            ELSE Let([c \in {ClassLoop(_advance(e2.p), <<>>)} |->
                     R(ClassStatement(_current_token(e1.p).literal, c.methods), c.p)])])])

\* The `while` loop of parse_program: [statements, p].
RECURSIVE ProgramLoop(_, _)
ProgramLoop(P, stmts) ==
    IF P.hang THEN [statements |-> stmts, p |-> P]
    ELSE IF _current_token(P) = None
    THEN [statements |-> stmts, p |-> [P EXCEPT !.hang = TRUE]]
    ELSE IF _current_token_is(P, "EOF")
    THEN [statements |-> stmts, p |-> P]
    ELSE Let([s \in {_parse_statement(P)} |->
             ProgramLoop(_advance(s.p),
                         IF s.node # None THEN Append(stmts, s.node) ELSE stmts)])

\* parse_program run to its end: R(Program, parser state); p.hang tells
\* that the call does not return.
parse_program(P) ==
    Let([l \in {ProgramLoop(P, <<>>)} |->
        R(Program(l.statements), l.p)])

(***************************************************************************)
(* Runtime objects (object/object.py)                                      *)
(*                                                                         *)
(* Objects the code compares by identity carry what identifies them: a     *)
(* Function or Class the number id it was given when it was created, an    *)
(* Instance the Environment holding its fields, a Module its public        *)
(* Environment.  An Environment is its index in heap; 0 stands for no      *)
(* Environment (outer = None).                                             *)
(***************************************************************************)
Integer(value) == [type |-> "INTEGER", value |-> value]
String(value) == [type |-> "STRING", value |-> value]
Boolean(value) == [type |-> "BOOLEAN", value |-> value]
NIL == [type |-> "NIL"]
ZEN_TRUE == Boolean(TRUE)
ZEN_FALSE == Boolean(FALSE)
ReturnValue(value) == [type |-> "RETURN_VALUE", value |-> value]
Error(message) == [type |-> "ERROR", message |-> message]
Function(parameters, body, env, name, id) ==
    [type |-> "FUNCTION", parameters |-> parameters, body |-> body, env |-> env,
     name |-> name, id |-> id]
Class(name, methods, id) == [type |-> "CLASS", name |-> name, methods |-> methods, id |-> id]
Instance(cls, fields) == [type |-> "INSTANCE", cls |-> cls, fields |-> fields]
Builtin(name) == [type |-> "BUILTIN", name |-> name]
Module(name, path, env, private_env, package_name) ==
    [type |-> "MODULE", name |-> name, path |-> path, env |-> env,
     private_env |-> private_env, package_name |-> package_name]

native_bool_to_boolean_object(input_bool) == IF input_bool THEN ZEN_TRUE ELSE ZEN_FALSE

is_error(obj) == obj.type = "ERROR"

is_truthy(obj) ==
    CASE obj.type = "INTEGER" -> obj.value # 0
      [] obj.type = "STRING" -> Len(obj.value) > 0
      [] obj.type = "BOOLEAN" -> obj.value
      [] obj.type = "NIL" -> FALSE
      [] obj.type = "ERROR" -> FALSE
      [] OTHER -> TRUE

\* `left is right` of Python.
SameObject(left, right) ==
    /\ left.type = right.type
    /\ CASE left.type \in {"FUNCTION", "CLASS"} -> left.id = right.id
         [] left.type = "INSTANCE" -> left.fields = right.fields
         [] left.type = "MODULE" -> left.env = right.env
         [] left.type = "BUILTIN" -> left.name = right.name
         [] left.type = "NIL" -> TRUE
         [] OTHER -> left = right

\* A Python dict kept as a sequence of [key, val] in insertion order.
RECURSIVE DictGet(_, _)
DictGet(d, key) ==
    IF Len(d) = 0 THEN None
    ELSE IF d[1].key = key THEN d[1].val
    ELSE DictGet(Tail(d), key)

DictSet(d, key, val) ==
    IF \E i \in 1..Len(d) : d[i].key = key
    THEN [i \in 1..Len(d) |-> IF d[i].key = key THEN [key |-> key, val |-> val] ELSE d[i]]
    ELSE Append(d, [key |-> key, val |-> val])

Class_get_method(cls, name) == DictGet(cls.methods, name)

(***************************************************************************)
(* Environment (object/environment.py)                                     *)
(*                                                                         *)
(* The state S threaded through evaluation is [heap, next_id,              *)
(* loaded_modules, loading_stack, opened, stdout].  heap[e] is the         *)
(* Environment e: [store, outer], store a function from names to objects.  *)
(***************************************************************************)
\* Environment(outer): [env, s], the new Environment and the state with it.
NewEnvironment(S, outer) ==
    [env |-> Len(S.heap) + 1,
     s |-> [S EXCEPT !.heap = Append(@, [store |-> <<>>, outer |-> outer])]]

RECURSIVE Environment_get(_, _, _)
Environment_get(S, e, name) ==
    IF name \in DOMAIN S.heap[e].store THEN S.heap[e].store[name]
    ELSE IF S.heap[e].outer # 0 THEN Environment_get(S, S.heap[e].outer, name)
    ELSE None

\* Environment_has that looks at the frame's own store only.
Environment_has_local(S, e, name) == name \in DOMAIN S.heap[e].store

RECURSIVE Environment_has(_, _, _)
Environment_has(S, e, name) ==
    name \in DOMAIN S.heap[e].store
    \/ (S.heap[e].outer # 0 /\ Environment_has(S, S.heap[e].outer, name))

\* Environment.update: [val, s], val the bool returned.
RECURSIVE Environment_update(_, _, _, _)
Environment_update(S, e, name, value) ==
    IF name \in DOMAIN S.heap[e].store
    THEN [val |-> TRUE, s |-> [S EXCEPT !.heap[e].store[name] = value]]
    ELSE IF S.heap[e].outer # 0 /\ Environment_has(S, S.heap[e].outer, name)
    THEN Environment_update(S, S.heap[e].outer, name, value)
    ELSE [val |-> FALSE,
          s |-> [S EXCEPT !.heap[e].store =
                    [n \in DOMAIN @ \cup {name} |-> IF n = name THEN value ELSE @[n]]]]

\* Environment_set that writes where update writes.
Environment_set_found(S, e, name, value) == Environment_update(S, e, name, value).s

Environment_set(S, e, name, value) ==
    [S EXCEPT !.heap[e].store =
        [n \in DOMAIN @ \cup {name} |-> IF n = name THEN value ELSE @[n]]]

Environment_define(S, e, name, value) ==
    [S EXCEPT !.heap[e].store =
        [n \in DOMAIN @ \cup {name} |-> IF n = name THEN value ELSE @[n]]]

new_enclosed_environment(S, e) == NewEnvironment(S, e)

\* A fresh identity for a Function or Class: [id, s].
NewId(S) == [id |-> S.next_id, s |-> [S EXCEPT !.next_id = @ + 1]]

(***************************************************************************)
(* Builtins (evaluator/builtins.py)                                        *)
(***************************************************************************)
SELF == <<"s","e","l","f">>
PACKAGE == <<"_","_","p","a","c","k","a","g","e","_","_">>
INIT == <<"_","_","i","n","i","t","_","_">>

BUILTINS == << <<"p","r","i","n","t">>, <<"l","e","n">>, <<"t","y","p","e">>, <<"s","t","r">>, <<"i","n","t">>, <<"b","o","o","l">>, <<"i","n","p","u","t">>, <<"e","x","i","t">> >>

\* str(n) of a Python int.
RECURSIVE NatToText(_)
NatToText(n) ==
    LET d == <<"0","1","2","3","4","5","6","7","8","9">>[(n % 10) + 1]
    IN  IF n < 10 THEN <<d>> ELSE NatToText(n \div 10) \o <<d>>

IntToText(n) == IF n < 0 THEN <<"-">> \o NatToText(-n) ELSE NatToText(n)

\* sep.join(parts)
RECURSIVE Join(_, _)
Join(sep, parts) ==
    IF Len(parts) = 0 THEN <<>>
    ELSE IF Len(parts) = 1 THEN parts[1]
    ELSE parts[1] \o sep \o Join(sep, Tail(parts))

\* type().lower()
TypeLower(t) ==
    CASE t = "INTEGER" -> <<"i","n","t","e","g","e","r">>
      [] t = "STRING" -> <<"s","t","r","i","n","g">>
      [] t = "BOOLEAN" -> <<"b","o","o","l","e","a","n">>
      [] t = "NIL" -> <<"n","i","l">>
      [] t = "FUNCTION" -> <<"f","u","n","c","t","i","o","n">>
      [] t = "CLASS" -> <<"c","l","a","s","s">>
      [] t = "INSTANCE" -> <<"i","n","s","t","a","n","c","e">>
      [] t = "BUILTIN" -> <<"b","u","i","l","t","i","n">>
      [] t = "MODULE" -> <<"m","o","d","u","l","e">>

inspect(obj) ==
    CASE obj.type = "INTEGER" -> IntToText(obj.value)
      [] obj.type = "STRING" -> <<"\"">> \o obj.value \o <<"\"">>
      [] obj.type = "BOOLEAN" -> IF obj.value THEN <<"t","r","u","e">> ELSE <<"f","a","l","s","e">>
      [] obj.type = "NIL" -> <<"n","i","l">>
      [] obj.type = "FUNCTION" ->
           <<"f","x"," ">> \o (IF Len(obj.name) > 0 THEN obj.name ELSE <<"<","a","n","o","n","y","m","o","u","s",">">>)
           \o <<"(">> \o Join(<<","," ">>, obj.parameters) \o <<")"," ","{"," ",".",".","."," ","}">>
      [] obj.type = "CLASS" ->
           <<"c","l","x"," ">> \o obj.name \o <<" ","{"," ">>
           \o Join(<<","," ">>, [i \in 1..Len(obj.methods) |-> obj.methods[i].key]) \o <<" ","}">>
      [] obj.type = "INSTANCE" -> <<"<">> \o obj.cls.name \o <<" ","i","n","s","t","a","n","c","e",">">>
      [] obj.type = "BUILTIN" -> <<"<","b","u","i","l","t","i","n"," ","f","u","n","c","t","i","o","n"," ">> \o obj.name \o <<">">>
      [] obj.type = "MODULE" -> <<"<","m","o","d","u","l","e"," ">> \o obj.name \o <<">">>

\* The text print and str produce for one argument.
Display(arg) == IF arg.type = "STRING" THEN arg.value ELSE inspect(arg)

\* int(text) of Python for ASCII text: optional blanks, optional sign,
\* decimal digits; anything else raises ValueError (ok = FALSE).
ParseInt(text) ==
    LET blanks == {" ", "\t", "\n", "\r"}
        from == ScanWhile(text, 0, blanks)
        RECURSIVE LastNonBlank(_)
        LastNonBlank(i) == IF i > from /\ text[i] \in blanks THEN LastNonBlank(i - 1) ELSE i
        core == Slice(text, from, LastNonBlank(Len(text)))
        signed == Len(core) > 0 /\ core[1] \in {"+", "-"}
        digits == IF signed THEN Tail(core) ELSE core
    IN  IF Len(digits) > 0 /\ ScanWhile(digits, 0, Digits) = Len(digits)
        THEN [ok |-> TRUE,
              value |-> IF signed /\ core[1] = "-" THEN 0 - _process_int(digits)
                        ELSE _process_int(digits)]
        ELSE [ok |-> FALSE, value |-> 0]

\* fn.fn(*args) for the Builtin called name: [val, s].
ApplyBuiltin(name, args, S) ==
    LET wrong(fn, expected) ==
            Error(<<"Wrong number of arguments to ", fn, "(): expected ", expected,
                    ", got ", Len(args)>>)
        arg == args[1]
    IN  CASE name = <<"p","r","i","n","t">> ->
               [val |-> NIL,
                s |-> [S EXCEPT !.stdout =
                          Append(@, Join(<<" ">>, [i \in 1..Len(args) |-> Display(args[i])]))]]
          [] name = <<"l","e","n">> ->
               [val |-> IF Len(args) # 1 THEN wrong("len", "1")
                        ELSE IF arg.type = "STRING" THEN Integer(Len(arg.value))
                        ELSE Error(<<"len() not supported for ", arg.type>>),
                s |-> S]
          [] name = <<"t","y","p","e">> ->
               [val |-> IF Len(args) # 1 THEN wrong("type", "1")
                        ELSE String(TypeLower(arg.type)),
                s |-> S]
          [] name = <<"s","t","r">> ->
               [val |-> IF Len(args) # 1 THEN wrong("str", "1")
                        ELSE String(Display(arg)),
                s |-> S]
          [] name = <<"i","n","t">> ->
               [val |-> IF Len(args) # 1 THEN wrong("int", "1")
                        ELSE CASE arg.type = "INTEGER" -> arg
                               [] arg.type = "STRING" ->
                                    IF ParseInt(arg.value).ok
                                    THEN Integer(ParseInt(arg.value).value)
                                    ELSE Error(<<"Cannot convert '", arg.value, "' to integer">>)
                               [] arg.type = "BOOLEAN" -> Integer(IF arg.value THEN 1 ELSE 0)
                               [] OTHER -> Error(<<"Cannot convert ", arg.type, " to integer">>),
                s |-> S]
          [] name = <<"b","o","o","l">> ->
               [val |-> IF Len(args) # 1 THEN wrong("bool", "1")
                        ELSE native_bool_to_boolean_object(is_truthy(arg)),
                s |-> S]
          [] name = <<"i","n","p","u","t">> ->
               \* standard input is at end of file: input() raises EOFError
               [val |-> IF Len(args) > 1
                        THEN Error(<<"Wrong number of arguments to input(): expected 0 or 1, got ",
                                     Len(args)>>)
                        ELSE String(<<>>),
                s |-> S]
          [] name = <<"e","x","i","t">> /\ Len(args) > 1 ->
               [val |-> Error(<<"Wrong number of arguments to exit(): expected 0 or 1, got ",
                                Len(args)>>),
                s |-> S]
          [] name = <<"e","x","i","t">> /\ Len(args) = 1 /\ arg.type # "INTEGER" ->
               [val |-> Error(<<"Exit code must be an integer">>), s |-> S]

(***************************************************************************)
(* Files and paths (os.path as used by ModuleManager.resolve_module_path)  *)
(***************************************************************************)
startswith(text, prefix) ==
    Len(prefix) <= Len(text) /\ SubSeq(text, 1, Len(prefix)) = prefix

endswith(text, suffix) ==
    Len(suffix) <= Len(text)
    /\ SubSeq(text, Len(text) - Len(suffix) + 1, Len(text)) = suffix

\* text.split(sep) for a one-character sep.
RECURSIVE Split(_, _)
Split(text, sep) ==
    LET i == ScanUntil(text, 0, {sep})
    IN  IF i >= Len(text) THEN <<text>>
        ELSE <<Slice(text, 0, i)>> \o Split(Slice(text, i + 1, Len(text)), sep)

\* os.path.join(a, b)
PathJoin(a, b) ==
    IF startswith(b, <<"/">>) THEN b
    ELSE IF Len(a) = 0 \/ endswith(a, <<"/">>) THEN a \o b
    ELSE a \o <<"/">> \o b

\* os.path.normpath of an absolute path: the list of its components.
RECURSIVE NormComponents(_, _)
NormComponents(comps, acc) ==
    IF Len(comps) = 0 THEN acc
    ELSE LET c == comps[1]
         IN  IF c = <<>> \/ c = <<".">> THEN NormComponents(Tail(comps), acc)
             ELSE IF c = <<".", ".">>
             THEN NormComponents(Tail(comps),
                                 IF Len(acc) > 0 THEN SubSeq(acc, 1, Len(acc) - 1) ELSE acc)
             ELSE NormComponents(Tail(comps), Append(acc, c))

\* os.path.abspath(path) with the working directory cwd.
AbsPath(cwd, path) ==
    <<"/">> \o Join(<<"/">>, NormComponents(Split(PathJoin(cwd, path), "/"), <<>>))

(***************************************************************************)
(* Module manager (object/object.py) and module paths (evaluator.py)       *)
(***************************************************************************)
search_paths == << <<".">>, <<".","/","e","x","a","m","p","l","e","s">>, <<".","/","l","i","b">>, <<".","/","m","o","d","u","l","e","s">> >>

is_loading(S, path) == \E i \in 1..Len(S.loading_stack) : S.loading_stack[i] = path

start_loading(S, path) == [S EXCEPT !.loading_stack = Append(@, path)]

\* finish_loading that leaves the stack as it is.
finish_loading_never(S, path) == S

\* list.remove(path): the first occurrence goes.
finish_loading(S, path) ==
    IF is_loading(S, path)
    THEN LET i == CHOOSE i \in 1..Len(S.loading_stack) :
                     /\ S.loading_stack[i] = path
                     /\ \A j \in 1..(i - 1) : S.loading_stack[j] # path
         IN  [S EXCEPT !.loading_stack = SubSeq(@, 1, i - 1) \o SubSeq(@, i + 1, Len(@))]
    ELSE S

\* get_cached_module that never finds the module.
get_cached_module_miss(S, path) == None

get_cached_module(S, path) == DictGet(S.loaded_modules, path)

cache_module(S, path, module) == [S EXCEPT !.loaded_modules = DictSet(@, path, module)]

\* resolve_module_path with the loops the other way round: every search
\* path is tried for one test path before the next test path.
resolve_module_path_by_test_path(fs, cwd, module_path, current_dir) ==
    LET test_paths == IF endswith(module_path, <<".","z","e","n">>) THEN <<module_path>>
                      ELSE << module_path \o <<".","z","e","n">>,
                              module_path \o <<"/","m","a","i","n",".","z","e","n">>,
                              module_path \o <<"/","i","n","d","e","x",".","z","e","n">> >>
        all_search_paths == <<current_dir>> \o search_paths
        n == Len(all_search_paths)
        full_path(k) == PathJoin(all_search_paths[((k - 1) % n) + 1],
                                 test_paths[((k - 1) \div n) + 1])
        found == {k \in 1..(Len(test_paths) * n) : AbsPath(cwd, full_path(k)) \in DOMAIN fs}
    IN  IF found = {} THEN None
        ELSE [type |-> "str",
              value |-> AbsPath(cwd, full_path(CHOOSE k \in found : \A j \in found : k <= j))]

\* The files (absolute path -> text) are fs; os.path.isfile(p) is
\* AbsPath(cwd, p) \in DOMAIN fs.  The result is None or the path found,
\* under type str.
resolve_module_path(fs, cwd, module_path, current_dir) ==
    LET test_paths == IF endswith(module_path, <<".","z","e","n">>) THEN <<module_path>>
                      ELSE << module_path \o <<".","z","e","n">>,
                              module_path \o <<"/","m","a","i","n",".","z","e","n">>,
                              module_path \o <<"/","i","n","d","e","x",".","z","e","n">> >>
        all_search_paths == <<current_dir>> \o search_paths
        n == Len(test_paths)
        \* candidate k counts search paths in the outer loop, test paths in the inner
        full_path(k) == PathJoin(all_search_paths[((k - 1) \div n) + 1],
                                 test_paths[((k - 1) % n) + 1])
        found == {k \in 1..(Len(all_search_paths) * n) : AbsPath(cwd, full_path(k)) \in DOMAIN fs}
    IN  IF found = {} THEN None
        ELSE [type |-> "str",
              value |-> AbsPath(cwd, full_path(CHOOSE k \in found : \A j \in found : k <= j))]

extract_module_name(module_path) ==
    LET stripped == IF endswith(module_path, <<".","z","e","n">>)
                    THEN SubSeq(module_path, 1, Len(module_path) - 4)
                    ELSE module_path
        slashed == [i \in 1..Len(stripped) |-> IF stripped[i] = "\\" THEN "/" ELSE stripped[i]]
        parts == Split(slashed, "/")
    IN  parts[Len(parts)]

\* is_public_name without the test of the first character.
is_public_name_any(name) == Len(name) > 0

is_public_name(name) ==
    IF startswith(name, <<"_","_">>) THEN FALSE
    ELSE Len(name) > 0 /\ name[1] \in UpperCase

(***************************************************************************)
(* Evaluator (evaluator/evaluator.py)                                      *)
(*                                                                         *)
(* Every eval_* / apply_* function is an operator to [val, s]: the object  *)
(* returned and the state left.  fs and cwd are the files and the working  *)
(* directory of the process.                                               *)
(***************************************************************************)
E(val, s) == [val |-> val, s |-> s]

CWD == <<"/","w">>

\* apply_bang_operator that negates is_truthy.
apply_bang_operator_truthy(operand) == native_bool_to_boolean_object(~is_truthy(operand))

apply_bang_operator(operand) ==
    IF operand = ZEN_TRUE THEN ZEN_FALSE
    ELSE IF operand = ZEN_FALSE THEN ZEN_TRUE
    ELSE IF operand = NIL THEN ZEN_TRUE
    ELSE ZEN_FALSE

apply_minus_operator(operand) ==
    IF operand.type = "INTEGER" THEN Integer(0 - operand.value)
    ELSE Error(<<"Unknown operator: -", operand.type>>)

apply_prefix_operator(operator, right) ==
    IF operator = <<"!">> THEN apply_bang_operator(right)
    ELSE IF operator = <<"-">> THEN apply_minus_operator(right)
    ELSE Error(<<"Unknown prefix operator: ", operator>>)

\* Division that truncates toward zero.
TruncDiv(a, b) ==
    IF (a >= 0) = (b > 0)
    THEN (IF a >= 0 THEN a ELSE 0 - a) \div (IF b > 0 THEN b ELSE 0 - b)
    ELSE 0 - ((IF a >= 0 THEN a ELSE 0 - a) \div (IF b > 0 THEN b ELSE 0 - b))

\* Python's left_val // right_val for right_val # 0.
FloorDiv(a, b) == IF b > 0 THEN a \div b ELSE (0 - a) \div (0 - b)

apply_integer_infix_operator(operator, left, right) ==
    LET left_val == left.value
        right_val == right.value
    IN  CASE operator = <<"+">> -> Integer(left_val + right_val)
          [] operator = <<"-">> -> Integer(left_val - right_val)
          [] operator = <<"*">> -> Integer(left_val * right_val)
          [] operator = <<"/">> ->
               IF right_val = 0 THEN Error(<<"Division by zero">>)
               ELSE Integer(FloorDiv(left_val, right_val))
          [] operator = <<"<">> -> native_bool_to_boolean_object(left_val < right_val)
          [] operator = <<">">> -> native_bool_to_boolean_object(left_val > right_val)
          [] operator = <<"<", "=">> -> native_bool_to_boolean_object(left_val <= right_val)
          [] operator = <<">", "=">> -> native_bool_to_boolean_object(left_val >= right_val)
          [] operator = <<"=", "=">> -> native_bool_to_boolean_object(left_val = right_val)
          [] operator = <<"!", "=">> -> native_bool_to_boolean_object(left_val # right_val)
          [] OTHER -> Error(<<"Unknown integer operator: ", operator>>)

apply_string_infix_operator(operator, left, right) ==
    CASE operator = <<"+">> -> String(left.value \o right.value)
      [] operator = <<"=", "=">> -> native_bool_to_boolean_object(left.value = right.value)
      [] operator = <<"!", "=">> -> native_bool_to_boolean_object(left.value # right.value)
      [] OTHER -> Error(<<"Unknown string operator: ", operator>>)

\* objects_equal that takes two Instances of the same class for equal.
objects_equal_by_class(left, right) ==
    IF left.type # right.type THEN FALSE
    ELSE IF left.type \in {"INTEGER", "STRING", "BOOLEAN"} THEN left.value = right.value
    ELSE IF left = NIL /\ right = NIL THEN TRUE
    ELSE IF left.type = "INSTANCE" THEN SameObject(left.cls, right.cls)
    ELSE SameObject(left, right)

objects_equal(left, right) ==
    IF left.type # right.type THEN FALSE
    ELSE IF left.type \in {"INTEGER", "STRING", "BOOLEAN"} THEN left.value = right.value
    ELSE IF left = NIL /\ right = NIL THEN TRUE
    ELSE SameObject(left, right)

apply_equality_operator(operator, left, right) ==
    IF operator = <<"=", "=">> THEN native_bool_to_boolean_object(objects_equal(left, right))
    ELSE IF operator = <<"!", "=">>
    THEN native_bool_to_boolean_object(~objects_equal(left, right))
    ELSE Error(<<"Unknown equality operator: ", operator>>)

apply_logical_operator(operator, left, right) ==
    IF operator = <<"&", "&">> THEN (IF ~is_truthy(left) THEN left ELSE right)
    ELSE IF operator = <<"|", "|">> THEN (IF is_truthy(left) THEN left ELSE right)
    ELSE Error(<<"Unknown logical operator: ", operator>>)

apply_infix_operator(operator, left, right) ==
    IF left.type = "INTEGER" /\ right.type = "INTEGER"
    THEN apply_integer_infix_operator(operator, left, right)
    ELSE IF left.type = "STRING" /\ right.type = "STRING"
    THEN apply_string_infix_operator(operator, left, right)
    ELSE IF operator \in {<<"=", "=">>, <<"!", "=">>}
    THEN apply_equality_operator(operator, left, right)
    ELSE IF operator \in {<<"&", "&">>, <<"|", "|">>}
    THEN apply_logical_operator(operator, left, right)
    ELSE Error(<<"Unknown operator: ", left.type, " ", operator, " ", right.type>>)

eval_package_statement(node, env, S) ==
    E(NIL, Environment_set(S, env, PACKAGE, String(node.name)))

eval_function_statement(node, env, S) ==
    Let([i \in {NewId(S)} |->
        Let([function \in {Function(node.parameters, node.body, env, node.name, i.id)} |->
            E(function, Environment_set(i.s, env, node.name, function))])])

\* The loop of eval_class_statement over node.methods: [methods, s].
RECURSIVE ClassMethodsLoop(_, _, _, _)
ClassMethodsLoop(method_nodes, env, methods, S) ==
    IF Len(method_nodes) = 0 THEN [methods |-> methods, s |-> S]
    ELSE Let([method_node \in {method_nodes[1]} |->
             Let([i \in {NewId(S)} |->
                 ClassMethodsLoop(Tail(method_nodes), env,
                                  DictSet(methods, method_node.name,
                                          Function(method_node.parameters, method_node.body,
                                                   env, method_node.name, i.id)),
                                  i.s)])])

eval_class_statement(node, env, S) ==
    Let([m \in {ClassMethodsLoop(node.methods, env, <<>>, S)} |->
        Let([i \in {NewId(m.s)} |->
            Let([cls \in {Class(node.name, m.methods, i.id)} |->
                E(cls, Environment_set(i.s, env, node.name, cls))])])])

eval_self_expression(node, env, S) ==
    Let([self_obj \in {Environment_get(S, env, SELF)} |->
        IF self_obj = None THEN E(Error(<<"'self' used outside of instance method">>), S)
        ELSE E(self_obj, S)])

eval_identifier(node, env, S) ==
    Let([val \in {Environment_get(S, env, node.value)} |->
        IF val = None THEN E(Error(<<"Identifier not found: ", node.value>>), S)
        ELSE E(val, S)])

\* create_bound_method that binds self in the closure of the method itself.
create_bound_method_inplace(method, instance, S) ==
    Let([i \in {NewId(Environment_set(S, method.env, SELF, instance))} |->
        E(Function(IF Len(method.parameters) > 0 /\ method.parameters[1] = SELF
                   THEN Tail(method.parameters) ELSE method.parameters,
                   method.body, method.env, method.name, i.id),
          i.s)])

create_bound_method(method, instance, S) ==
    Let([b \in {new_enclosed_environment(S, method.env)} |->
        Let([i \in {NewId(Environment_set(b.s, b.env, SELF, instance))} |->
            E(Function(IF Len(method.parameters) > 0 /\ method.parameters[1] = SELF
                       THEN Tail(method.parameters) ELSE method.parameters,
                       method.body, b.env, method.name, i.id),
              i.s)])])

\* The zip loop of apply_user_function binding parameters in env.
RECURSIVE BindParameters(_, _, _, _)
BindParameters(S, env, parameters, args) ==
    IF Len(parameters) = 0 \/ Len(args) = 0 THEN S
    ELSE BindParameters(Environment_set(S, env, parameters[1], args[1]), env,
                        Tail(parameters), Tail(args))

RECURSIVE eval_node(_, _, _), eval_program(_, _, _), ProgramStatementsLoop(_, _, _, _, _),
          eval_block_statement(_, _, _), BlockStatementsLoop(_, _, _, _, _),
          eval_return_statement(_, _, _), eval_assign_statement(_, _, _),
          eval_member_assignment(_, _, _, _), eval_load_statement(_, _, _),
          LoadLoop(_, _, _, _, _), load_module(_, _, _), eval_prefix_expression(_, _, _),
          eval_infix_expression(_, _, _), eval_call_expression(_, _, _),
          ArgumentsEvalLoop(_, _, _, _, _), apply_function(_, _, _, _),
          apply_user_function(_, _, _), apply_class_constructor(_, _, _),
          eval_member_access_expression(_, _, _)

eval_node(node, env, S) ==
    IF node = None THEN E(NIL, S)
    ELSE CASE node.kind = "Program" -> eval_program(node.statements, env, S)
           [] node.kind = "BlockStatement" -> eval_block_statement(node.statements, env, S)
           [] node.kind = "ExpressionStatement" -> eval_node(node.expression, env, S)
           [] node.kind = "ReturnStatement" -> eval_return_statement(node, env, S)
           [] node.kind = "AssignStatement" -> eval_assign_statement(node, env, S)
           [] node.kind = "PackageStatement" -> eval_package_statement(node, env, S)
           [] node.kind = "LoadStatement" -> eval_load_statement(node, env, S)
           [] node.kind = "FunctionStatement" -> eval_function_statement(node, env, S)
           [] node.kind = "ClassStatement" -> eval_class_statement(node, env, S)
           [] node.kind = "IntegerLiteral" -> E(Integer(node.value), S)
           [] node.kind = "StringLiteral" -> E(String(node.value), S)
           [] node.kind = "BooleanLiteral" -> E(native_bool_to_boolean_object(node.value), S)
           [] node.kind = "NilLiteral" -> E(NIL, S)
           [] node.kind = "SelfExpression" -> eval_self_expression(node, env, S)
           [] node.kind = "Identifier" -> eval_identifier(node, env, S)
           [] node.kind = "PrefixExpression" -> eval_prefix_expression(node, env, S)
           [] node.kind = "InfixExpression" -> eval_infix_expression(node, env, S)
           [] node.kind = "CallExpression" -> eval_call_expression(node, env, S)
           [] node.kind = "MemberAccessExpression" -> eval_member_access_expression(node, env, S)

\* The `for` loop of eval_program from statement i on, result being the
\* value of the statement before it.
ProgramStatementsLoop(stmts, i, env, S, res) ==
    IF i > Len(stmts) THEN E(res, S)
    ELSE Let([r \in {eval_node(stmts[i], env, S)} |->
             IF r.val.type = "RETURN_VALUE" THEN E(r.val.value, r.s)
             ELSE IF r.val.type = "ERROR" THEN r
             ELSE ProgramStatementsLoop(stmts, i + 1, env, r.s, r.val)])

eval_program(stmts, env, S) == ProgramStatementsLoop(stmts, 1, env, S, NIL)

\* BlockStatementsLoop that goes on after a ReturnValue.
BlockStatementsLoop_on(stmts, i, env, S, res) ==
    IF i > Len(stmts) THEN E(res, S)
    ELSE Let([r \in {eval_node(stmts[i], env, S)} |->
             IF r.val.type = "ERROR" THEN r
             ELSE BlockStatementsLoop(stmts, i + 1, env, r.s, r.val)])

\* The `for` loop of eval_block_statement.
BlockStatementsLoop(stmts, i, env, S, res) ==
    IF i > Len(stmts) THEN E(res, S)
    ELSE Let([r \in {eval_node(stmts[i], env, S)} |->
             IF r.val.type \in {"RETURN_VALUE", "ERROR"} THEN r
             ELSE BlockStatementsLoop(stmts, i + 1, env, r.s, r.val)])

eval_block_statement(stmts, env, S) == BlockStatementsLoop(stmts, 1, env, S, NIL)

eval_return_statement(node, env, S) ==
    IF node.value # None
    THEN Let([r \in {eval_node(node.value, env, S)} |->
             IF is_error(r.val) THEN r ELSE E(ReturnValue(r.val), r.s)])
    ELSE E(ReturnValue(NIL), S)

\* eval_assign_statement that takes self for a target and binds it as a
\* name.
eval_assign_statement_self(node, env, S) ==
    Let([v \in {eval_node(node.value, env, S)} |->
        IF is_error(v.val) THEN v
        ELSE IF node.target.kind = "Identifier"
        THEN E(v.val, Environment_set(v.s, env, node.target.value, v.val))
        ELSE IF node.target.kind = "SelfExpression"
        THEN E(v.val, Environment_set(v.s, env, SELF, v.val))
        ELSE IF node.target.kind = "MemberAccessExpression"
        THEN eval_member_assignment(node.target, v.val, env, v.s)
        ELSE E(Error(<<"Invalid assignment target: <class 'zen_ast.ast.", node.target.kind,
                       "'>">>), v.s)])

eval_assign_statement(node, env, S) ==
    Let([v \in {eval_node(node.value, env, S)} |->
        IF is_error(v.val) THEN v
        ELSE IF node.target.kind = "Identifier"
        THEN E(v.val, Environment_set(v.s, env, node.target.value, v.val))
        ELSE IF node.target.kind = "MemberAccessExpression"
        THEN eval_member_assignment(node.target, v.val, env, v.s)
        ELSE E(Error(<<"Invalid assignment target: <class 'zen_ast.ast.", node.target.kind,
                       "'>">>), v.s)])

\* eval_member_assignment that takes a Module too and writes the name in
\* its public environment.
eval_member_assignment_any(member_expr, value, env, S) ==
    Let([o \in {eval_node(member_expr.object, env, S)} |->
        IF is_error(o.val) THEN o
        ELSE IF o.val.type = "INSTANCE"
        THEN E(value, Environment_set(o.s, o.val.fields, member_expr.member, value))
        ELSE IF o.val.type = "MODULE"
        THEN E(value, Environment_set(o.s, o.val.env, member_expr.member, value))
        ELSE E(Error(<<"Cannot assign to member of ", o.val.type>>), o.s)])

eval_member_assignment(member_expr, value, env, S) ==
    Let([o \in {eval_node(member_expr.object, env, S)} |->
        IF is_error(o.val) THEN o
        ELSE IF o.val.type = "INSTANCE"
        THEN E(value, Environment_set(o.s, o.val.fields, member_expr.member, value))
        ELSE E(Error(<<"Cannot assign to member of ", o.val.type>>), o.s)])

\* The calls of load_module and their returns, in order, written down when
\* the state has a field calls for them: the path, the loading stack at
\* that moment and, for a return, the object returned.
Called(S, path) ==
    IF "calls" \in DOMAIN S
    THEN [S EXCEPT !.calls = Append(@, [op |-> "call", path |-> path,
                                       loading_stack |-> S.loading_stack, val |-> None])]
    ELSE S

Returned(path, r) ==
    IF "calls" \in DOMAIN r.s /\ ~r.s.hang
    THEN E(r.val, [r.s EXCEPT !.calls = Append(@, [op |-> "return", path |-> path,
                                                  loading_stack |-> r.s.loading_stack,
                                                  val |-> r.val])])
    ELSE r

\* The `for` loop of eval_load_statement from import i on.
LoadLoop(imports, i, env, S, res) ==
    IF i > Len(imports) THEN E(res, S)
    ELSE Let([m \in {Returned(imports[i],
                               load_module(imports[i], env, Called(S, imports[i])))} |->
             IF is_error(m.val) THEN m
             ELSE LoadLoop(imports, i + 1, env, m.s, m.val)])

eval_load_statement(node, env, S) == LoadLoop(node.imports, 1, env, S, NIL)

eval_prefix_expression(node, env, S) ==
    Let([r \in {eval_node(node.right, env, S)} |->
        IF is_error(r.val) THEN r
        ELSE E(apply_prefix_operator(node.operator, r.val), r.s)])

\* eval_infix_expression that goes on to the right operand when the left
\* one has yielded an Error.
eval_infix_expression_eager(node, env, S) ==
    Let([l \in {eval_node(node.left, env, S)} |->
        Let([r \in {eval_node(node.right, env, l.s)} |->
            IF is_error(r.val) THEN r
            ELSE E(apply_infix_operator(node.operator, l.val, r.val), r.s)])])

eval_infix_expression(node, env, S) ==
    Let([l \in {eval_node(node.left, env, S)} |->
        IF is_error(l.val) THEN l
        ELSE Let([r \in {eval_node(node.right, env, l.s)} |->
                 IF is_error(r.val) THEN r
                 ELSE E(apply_infix_operator(node.operator, l.val, r.val), r.s)])])

\* The `for` loop of eval_call_expression from argument i on: [val, s],
\* val an Error or, under type ARGS, the list of evaluated arguments.
ArgumentsEvalLoop(arg_nodes, i, env, S, args) ==
    IF i > Len(arg_nodes) THEN E([type |-> "ARGS", args |-> args], S)
    ELSE Let([a \in {eval_node(arg_nodes[i], env, S)} |->
             IF is_error(a.val) THEN a
             ELSE ArgumentsEvalLoop(arg_nodes, i + 1, env, a.s, Append(args, a.val))])

eval_call_expression(node, env, S) ==
    Let([f \in {eval_node(node.function, env, S)} |->
        IF is_error(f.val) THEN f
        ELSE Let([a \in {ArgumentsEvalLoop(node.arguments, 1, env, f.s, <<>>)} |->
                 IF is_error(a.val) THEN a
                 ELSE apply_function(f.val, a.val.args, env, a.s)])])

apply_function(fn, args, env, S) ==
    CASE fn.type = "FUNCTION" -> apply_user_function(fn, args, S)
      [] fn.type = "BUILTIN" -> ApplyBuiltin(fn.name, args, S)
      [] fn.type = "CLASS" -> apply_class_constructor(fn, args, S)
      [] OTHER -> E(Error(<<"Not a function: ", fn.type>>), S)

\* apply_user_function that binds the parameters and evaluates the body in
\* the frame the function was defined in, with no frame of its own.
apply_user_function_shared(fn, args, S) ==
    IF Len(args) # Len(fn.parameters)
    THEN E(Error(<<"Wrong number of arguments: expected ", Len(fn.parameters),
                   ", got ", Len(args)>>), S)
    ELSE Let([evaluated \in {eval_node(fn.body, fn.env,
                                       BindParameters(S, fn.env, fn.parameters, args))} |->
             IF evaluated.val.type = "RETURN_VALUE"
             THEN E(evaluated.val.value, evaluated.s)
             ELSE evaluated])

\* apply_user_function that hands on what the body yields as it is.
apply_user_function_wrapped(fn, args, S) ==
    IF Len(args) # Len(fn.parameters)
    THEN E(Error(<<"Wrong number of arguments: expected ", Len(fn.parameters),
                   ", got ", Len(args)>>), S)
    ELSE Let([x \in {new_enclosed_environment(S, fn.env)} |->
             eval_node(fn.body, x.env, BindParameters(x.s, x.env, fn.parameters, args))])

apply_user_function(fn, args, S) ==
    IF Len(args) # Len(fn.parameters)
    THEN E(Error(<<"Wrong number of arguments: expected ", Len(fn.parameters),
                   ", got ", Len(args)>>), S)
    ELSE Let([x \in {new_enclosed_environment(S, fn.env)} |->
             Let([evaluated \in {eval_node(fn.body, x.env, BindParameters(x.s, x.env, fn.parameters, args))} |->
                     IF evaluated.val.type = "RETURN_VALUE"
                     THEN E(evaluated.val.value, evaluated.s)
                     ELSE evaluated])])

\* apply_class_constructor that yields what __init__ yields.
apply_class_constructor_init(cls, args, S) ==
    Let([f \in {NewEnvironment(S, 0)} |->
        Let([instance \in {Instance(cls, f.env)} |->
            Let([init_method \in {Class_get_method(cls, INIT)} |->
                IF init_method # None
                THEN apply_user_function(init_method, <<instance>> \o args, f.s)
                ELSE E(instance, f.s)])])])

apply_class_constructor(cls, args, S) ==
    Let([f \in {NewEnvironment(S, 0)} |->
        Let([instance \in {Instance(cls, f.env)} |->
            Let([init_method \in {Class_get_method(cls, INIT)} |->
                IF init_method # None
                THEN Let([r \in {apply_user_function(init_method, <<instance>> \o args, f.s)} |-> IF is_error(r.val) THEN r ELSE E(instance, r.s)])
                ELSE E(instance, f.s)])])])

eval_member_access_expression(node, env, S) ==
    Let([o \in {eval_node(node.object, env, S)} |->
        IF is_error(o.val) THEN o
        ELSE CASE o.val.type = "INSTANCE" ->
                    Let([field \in {Environment_get(o.s, o.val.fields, node.member)} |->
                        Let([method \in {Class_get_method(o.val.cls, node.member)} |->
                            IF field # None THEN E(field, o.s)
                            ELSE IF method # None
                            THEN create_bound_method(method, o.val, o.s)
                            ELSE E(Error(<<"Attribute '", node.member, "' not found on ",
                                           o.val.cls.name, " instance">>), o.s)])])
               [] o.val.type = "MODULE" ->
                    Let([member \in {Environment_get(o.s, o.val.env, node.member)} |->
                        IF member # None THEN E(member, o.s)
                        ELSE E(Error(<<"Module '", o.val.name,
                                       "' has no public attribute '", node.member, "'">>),
                               o.s)])
               [] o.val.type = "CLASS" ->
                    Let([method \in {Class_get_method(o.val, node.member)} |->
                        IF method # None THEN E(method, o.s)
                        ELSE E(Error(<<"Class '", o.val.name, "' has no attribute '",
                                       node.member, "'">>), o.s)])
               [] OTHER ->
                    E(Error(<<"Cannot access member '", node.member, "' on ", o.val.type>>),
                      o.s)])

(***************************************************************************)
(* The files of the process, absolute path -> text, under the working      *)
(* directory CWD.                                                          *)
(***************************************************************************)
\* print("m") secret = 41 fx Get() { return secret + 1 } Value = 7
File_m == <<"p","r","i","n","t","(","\"","m","\"",")"," ","s","e","c","r","e","t"," ","="," ","4","1"," ","f","x"," ","G","e","t","(",")"," ","{"," ","r","e","t","u","r","n"," ","s","e","c","r","e","t"," ","+"," ","1"," ","}"," ","V","a","l","u","e"," ","="," ","7">>
\* load("b") A = 1
File_a == <<"l","o","a","d","(","\"","b","\"",")"," ","A"," ","="," ","1">>
\* load("a") B = 2
File_b == <<"l","o","a","d","(","\"","a","\"",")"," ","B"," ","="," ","2">>
\* load("a") C = 3
File_c == <<"l","o","a","d","(","\"","a","\"",")"," ","C"," ","="," ","3">>
\* load("s")
File_s == <<"l","o","a","d","(","\"","s","\"",")">>
\* X = 1 )
File_bad == <<"X"," ","="," ","1"," ",")">>
\* Y = 1 Z = nope
File_err == <<"Y"," ","="," ","1"," ","Z"," ","="," ","n","o","p","e">>
\* X = 1 @
File_lex == <<"X"," ","="," ","1"," ","@">>
\* U = 3
File_u == <<"U"," ","="," ","3">>
\* bag p P = 5
File_p == <<"b","a","g"," ","p"," ","P"," ","="," ","5">>
\* load("u") fx Three() { return u.U } hidden = 9
File_v == <<"l","o","a","d","(","\"","u","\"",")"," ","f","x"," ","T","h","r","e","e","(",")"," ","{"," ","r","e","t","u","r","n"," ","u",".","U"," ","}"," ","h","i","d","d","e","n"," ","="," ","9">>

\* a =
File_hang == <<"a"," ","=">>
\* load("u", "err")
File_after == <<"l","o","a","d","(","\"","u","\"",","," ","\"","e","r","r","\"",")">>
\* load("lex")
File_nlex == <<"l","o","a","d","(","\"","l","e","x","\"",")">>
\* load("nope")
File_nnope == <<"l","o","a","d","(","\"","n","o","p","e","\"",")">>
\* load("bad")
File_nbad == <<"l","o","a","d","(","\"","b","a","d","\"",")">>
\* load("l", "r") D = l.L + r.R
File_d == <<"l","o","a","d","(","\"","l","\"",","," ","\"","r","\"",")"," ","D"," ","="," ","l",".","L"," ","+"," ","r",".","R">>
\* load("u") L = u.U
File_l == <<"l","o","a","d","(","\"","u","\"",")"," ","L"," ","="," ","u",".","U">>
\* load("u") R = u.U + 1
File_r == <<"l","o","a","d","(","\"","u","\"",")"," ","R"," ","="," ","u",".","U"," ","+"," ","1">>

Files ==
    (<<"/","w","/","m",".","z","e","n">> :> File_m) @@ (<<"/","w","/","a",".","z","e","n">> :> File_a) @@ (<<"/","w","/","b",".","z","e","n">> :> File_b) @@
    (<<"/","w","/","c",".","z","e","n">> :> File_c) @@
    (<<"/","w","/","s",".","z","e","n">> :> File_s) @@ (<<"/","w","/","b","a","d",".","z","e","n">> :> File_bad) @@
    (<<"/","w","/","e","r","r",".","z","e","n">> :> File_err) @@ (<<"/","w","/","l","e","x",".","z","e","n">> :> File_lex) @@
    (<<"/","w","/","l","i","b","/","u",".","z","e","n">> :> File_u) @@ (<<"/","w","/","p","/","m","a","i","n",".","z","e","n">> :> File_p) @@
    (<<"/","w","/","v",".","z","e","n">> :> File_v) @@
    (<<"/","w","/","a","f","t","e","r",".","z","e","n">> :> File_after) @@ (<<"/","w","/","n","l","e","x",".","z","e","n">> :> File_nlex) @@
    (<<"/","w","/","n","n","o","p","e",".","z","e","n">> :> File_nnope) @@ (<<"/","w","/","n","b","a","d",".","z","e","n">> :> File_nbad) @@
    (<<"/","w","/","d",".","z","e","n">> :> File_d) @@ (<<"/","w","/","l",".","z","e","n">> :> File_l) @@ (<<"/","w","/","r",".","z","e","n">> :> File_r) @@
    (<<"/","w","/","h","a","n","g",".","z","e","n">> :> File_hang)

\* The loop of load_module copying the builtins into module_env.
RECURSIVE CopyBuiltins(_, _, _)
CopyBuiltins(S, env, names) ==
    IF Len(names) = 0 THEN S
    ELSE CopyBuiltins(Environment_set(S, env, names[1], Builtin(names[1])), env, Tail(names))

\* Evaluator(): a globals Environment holding the builtins: [env, s].
NewEvaluator(S) ==
    Let([g \in {NewEnvironment(S, 0)} |->
        [env |-> g.env, s |-> CopyBuiltins(g.s, g.env, BUILTINS)]])

\* The loop of load_module filling public_env from module_env.items().
PublicEnvironment(S, module_env) ==
    Let([p \in {NewEnvironment(S, 0)} |->
        Let([store \in {S.heap[module_env].store} |->
            [env |-> p.env,
             s |-> [p.s EXCEPT !.heap[p.env].store =
                        [n \in {k \in DOMAIN store : is_public_name(k)} |-> store[n]]]]])])

\* The body of the try block of load_module, after start_loading; the
\* finally clause is applied by load_module.  The file is the one
\* resolve_module_path has just seen, so open() finds it.
LoadModuleBody(module_path, file_path, env, S) ==
    Let([S1 \in {[S EXCEPT !.opened = Append(@, [module_path |-> module_path,
                                        file_path |-> file_path])]} |->
    Let([lexer \in {tokenize(Files[file_path])} |->
        IF lexer.raised
        THEN E(Error(<<"Error loading module ", module_path,
                       ": Lexer error at line ", lexer.line, ", column ", lexer.column,
                       ": Illegal character: '", Files[file_path][lexer.position + 1],
                       "'">>), S1)
        ELSE
        Let([parsed \in {parse_program(Parser(lexer.tokens))} |->
            IF parsed.p.hang THEN E(Error(<<"parse_program does not return">>),
                                    [S1 EXCEPT !.hang = TRUE])
            ELSE IF Len(parsed.p.errors) > 0
            THEN E(Error(<<"Parse errors in ", module_path, ": ", parsed.p.errors>>), S1)
            ELSE
            Let([m \in {NewEnvironment(S1, 0)} |->
            Let([evaluated \in {eval_node(parsed.node, m.env,
                          CopyBuiltins(NewEvaluator(m.s).s, m.env, BUILTINS))} |->
                IF is_error(evaluated.val) THEN evaluated
                ELSE
                Let([package_obj \in {Environment_get(evaluated.s, m.env, PACKAGE)} |->
                Let([pub \in {PublicEnvironment(evaluated.s, m.env)} |->
                Let([module \in {Module(extract_module_name(module_path), file_path, pub.env, m.env,
                           IF package_obj.type = "STRING" THEN package_obj.value ELSE <<>>)} |->
                    E(module, Environment_set(cache_module(pub.s, module_path, module),
                                              env, extract_module_name(module_path),
                                              module))])])])])])])])])

\* load_module that answers a load of a path in flight with NIL.
load_module_silent(module_path, env, S) ==
    Let([cached_module \in {get_cached_module(S, module_path)} |->
        IF cached_module # None
        THEN E(cached_module,
               Environment_set(S, env, extract_module_name(module_path), cached_module))
        ELSE IF is_loading(S, module_path)
        THEN E(NIL, S)
        ELSE Let([file_path \in {resolve_module_path(Files, CWD, module_path, CWD)} |->
                 IF file_path = None
                 THEN E(Error(<<"Module not found: ", module_path>>), S)
                 ELSE Let([r \in {LoadModuleBody(module_path, file_path.value, env,
                                         start_loading(S, module_path))} |-> IF r.s.hang THEN r
                                     ELSE E(r.val, finish_loading(r.s, module_path))])])])

\* load_module that takes the path off the loading stack only when the
\* module has loaded.
load_module_leaky(module_path, env, S) ==
    Let([cached_module \in {get_cached_module(S, module_path)} |->
        IF cached_module # None
        THEN E(cached_module,
               Environment_set(S, env, extract_module_name(module_path), cached_module))
        ELSE IF is_loading(S, module_path)
        THEN E(Error(<<"Circular import detected: ", module_path>>), S)
        ELSE Let([file_path \in {resolve_module_path(Files, CWD, module_path, CWD)} |->
                 IF file_path = None
                 THEN E(Error(<<"Module not found: ", module_path>>), S)
                 ELSE Let([r \in {LoadModuleBody(module_path, file_path.value, env,
                                         start_loading(S, module_path))} |->
                          IF r.s.hang \/ is_error(r.val) THEN r
                          ELSE E(r.val, finish_loading(r.s, module_path))])])])

\* load_module that binds the short name to whatever the load has given.
load_module_bound(module_path, env, S) ==
    Let([cached_module \in {get_cached_module(S, module_path)} |->
        IF cached_module # None
        THEN E(cached_module,
               Environment_set(S, env, extract_module_name(module_path), cached_module))
        ELSE IF is_loading(S, module_path)
        THEN E(Error(<<"Circular import detected: ", module_path>>), S)
        ELSE Let([file_path \in {resolve_module_path(Files, CWD, module_path, CWD)} |->
                 IF file_path = None
                 THEN E(Error(<<"Module not found: ", module_path>>), S)
                 ELSE Let([r \in {LoadModuleBody(module_path, file_path.value, env,
                                         start_loading(S, module_path))} |->
                          IF r.s.hang THEN r
                          ELSE E(r.val, Environment_set(finish_loading(r.s, module_path), env,
                                                        extract_module_name(module_path),
                                                        r.val))])])])

load_module(module_path, env, S) ==
    Let([cached_module \in {get_cached_module(S, module_path)} |->
        IF cached_module # None
        THEN E(cached_module,
               Environment_set(S, env, extract_module_name(module_path), cached_module))
        ELSE IF is_loading(S, module_path)
        THEN E(Error(<<"Circular import detected: ", module_path>>), S)
        ELSE Let([file_path \in {resolve_module_path(Files, CWD, module_path, CWD)} |->
                 IF file_path = None
                 THEN E(Error(<<"Module not found: ", module_path>>), S)
                 ELSE Let([r \in {LoadModuleBody(module_path, file_path.value, env,
                                         start_loading(S, module_path))} |-> IF r.s.hang THEN r
                                     ELSE E(r.val, finish_loading(r.s, module_path))])])])

(***************************************************************************)
(* The session (zen_repl.py): one ZenREPL, its environment kept from one   *)
(* _evaluate to the next, and the process-wide module_manager.             *)
(***************************************************************************)
\* ZenREPL.__init__ with the module_manager of a fresh process: the
\* evaluator's globals are Environment 1, self.environment is Environment 2.
ZenREPL ==
    Let([ev \in {NewEvaluator([heap |-> <<>>, next_id |-> 1, loaded_modules |-> <<>>,
                      loading_stack |-> <<>>, opened |-> <<>>, stdout |-> <<>>,
                      hang |-> FALSE])} |->
        Let([e \in {NewEnvironment(ev.s, 0)} |->
            [environment |-> e.env, s |-> CopyBuiltins(e.s, e.env, BUILTINS)]])])

environment == ZenREPL.environment

\* print(...) of the REPL itself, one line per entry of lines.
RECURSIVE PrintLines(_, _, _)
PrintLines(S, prefix, lines) ==
    IF Len(lines) = 0 THEN S
    ELSE PrintLines([S EXCEPT !.stdout = Append(@, <<prefix, lines[1]>>)], prefix, Tail(lines))

\* ZenREPL._evaluate(source) from state S: the parser's errors, the program
\* parsed, result as eval_node returned it (None when eval_node was not
\* called) and the state left.  s.hang tells that the call does not return.
_evaluate(source_text, S) ==
    Let([lexer \in {tokenize(source_text)} |->
        IF lexer.raised
        THEN [errors |-> <<>>, program |-> None, result |-> None,
              s |-> PrintLines(S, "Lexer Error: ",
                               << <<lexer.line, lexer.column,
                                    source_text[lexer.position + 1]>> >>)]
        ELSE
        Let([parsed \in {parse_program(Parser(lexer.tokens))} |->
            IF parsed.p.hang
            THEN [errors |-> parsed.p.errors, program |-> None, result |-> None,
                  s |-> [S EXCEPT !.hang = TRUE]]
            ELSE IF Len(parsed.p.errors) > 0
            THEN [errors |-> parsed.p.errors, program |-> parsed.node, result |-> None,
                  s |-> PrintLines(S, "Parse Error: ", parsed.p.errors)]
            ELSE
            Let([evaluated \in {eval_node(parsed.node, environment, S)} |->
                [errors |-> <<>>, program |-> parsed.node, result |-> evaluated.val,
                 s |-> IF is_error(evaluated.val)
                       THEN PrintLines(evaluated.s, "Runtime Error: ",
                                       <<evaluated.val.message>>)
                       ELSE evaluated.s]])])])

(***************************************************************************)
(* The texts a session runs.                                               *)
(***************************************************************************)
\* load("m") n = m load("m") n == m
Src_reload == <<"l","o","a","d","(","\"","m","\"",")"," ","n"," ","="," ","m"," ","l","o","a","d","(","\"","m","\"",")"," ","n"," ","=","="," ","m">>
\* load("m") m.Get()
Src_get == <<"l","o","a","d","(","\"","m","\"",")"," ","m",".","G","e","t","(",")">>
\* load("m") m.secret
Src_secret == <<"l","o","a","d","(","\"","m","\"",")"," ","m",".","s","e","c","r","e","t">>
\* load("a")
Src_a == <<"l","o","a","d","(","\"","a","\"",")">>
\* load("c")
Src_c == <<"l","o","a","d","(","\"","c","\"",")">>
\* load("s")
Src_s == <<"l","o","a","d","(","\"","s","\"",")">>
\* load("v") v.Three()
Src_v == <<"l","o","a","d","(","\"","v","\"",")"," ","v",".","T","h","r","e","e","(",")">>
\* load("err")
Src_err == <<"l","o","a","d","(","\"","e","r","r","\"",")">>
\* load("p") p.P
Src_p == <<"l","o","a","d","(","\"","p","\"",")"," ","p",".","P">>
\* fx makeCounter() { count = 0 fx inc() { count = count + 1 return count } return inc }
\* counter = makeCounter() a = counter() b = counter() b
Src_counter == <<"f","x"," ","m","a","k","e","C","o","u","n","t","e","r","(",")"," ","{"," ","c","o","u","n","t"," ","="," ","0"," ","f","x"," ","i","n","c","(",")"," ","{"," ","c","o","u","n","t"," ","="," ","c","o","u","n","t"," ","+"," ","1"," ","r","e","t","u","r","n"," ","c","o","u","n","t"," ","}"," ","r","e","t","u","r","n"," ","i","n","c"," ","}"," ","c","o","u","n","t","e","r"," ","="," ","m","a","k","e","C","o","u","n","t","e","r","(",")"," ","a"," ","="," ","c","o","u","n","t","e","r","(",")"," ","b"," ","="," ","c","o","u","n","t","e","r","(",")"," ","b">>
\* clx Person { fx __init__(self, name) { self.name = name } } p = Person("Alice") p.name
Src_person == <<"c","l","x"," ","P","e","r","s","o","n"," ","{"," ","f","x"," ","_","_","i","n","i","t","_","_","(","s","e","l","f",","," ","n","a","m","e",")"," ","{"," ","s","e","l","f",".","n","a","m","e"," ","="," ","n","a","m","e"," ","}"," ","}"," ","p"," ","="," ","P","e","r","s","o","n","(","\"","A","l","i","c","e","\"",")"," ","p",".","n","a","m","e">>
\* clx Person { fx __init__(s, name) { s.name = name } } p = Person("Alice") p.name
Src_person_s == <<"c","l","x"," ","P","e","r","s","o","n"," ","{"," ","f","x"," ","_","_","i","n","i","t","_","_","(","s",","," ","n","a","m","e",")"," ","{"," ","s",".","n","a","m","e"," ","="," ","n","a","m","e"," ","}"," ","}"," ","p"," ","="," ","P","e","r","s","o","n","(","\"","A","l","i","c","e","\"",")"," ","p",".","n","a","m","e">>
\* clx P { fx __init__(s) { s.k = 1 return 5 } } q = P() q.none
Src_init_returns == <<"c","l","x"," ","P"," ","{"," ","f","x"," ","_","_","i","n","i","t","_","_","(","s",")"," ","{"," ","s",".","k"," ","="," ","1"," ","r","e","t","u","r","n"," ","5"," ","}"," ","}"," ","q"," ","="," ","P","(",")"," ","q",".","n","o","n","e">>
\* clx Q { fx get(s) { return 1 } } Q(1, 2)
Src_no_init == <<"c","l","x"," ","Q"," ","{"," ","f","x"," ","g","e","t","(","s",")"," ","{"," ","r","e","t","u","r","n"," ","1"," ","}"," ","}"," ","Q","(","1",","," ","2",")">>
\* clx B { fx __init__(s) { s.x = nope } } B()
Src_init_fails == <<"c","l","x"," ","B"," ","{"," ","f","x"," ","_","_","i","n","i","t","_","_","(","s",")"," ","{"," ","s",".","x"," ","="," ","n","o","p","e"," ","}"," ","}"," ","B","(",")">>
\* print(print(1), nope, print(2))
Src_args == <<"p","r","i","n","t","(","p","r","i","n","t","(","1",")",","," ","n","o","p","e",","," ","p","r","i","n","t","(","2",")",")">>
\* x = nope + print(3)
Src_bind == <<"x"," ","="," ","n","o","p","e"," ","+"," ","p","r","i","n","t","(","3",")">>
\* -nope nope.y print(4).x = nope return nope nope(print(5)) print(6) + nope
Src_children == <<"-","n","o","p","e"," ","n","o","p","e",".","y"," ","p","r","i","n","t","(","4",")",".","x"," ","="," ","n","o","p","e"," ","r","e","t","u","r","n"," ","n","o","p","e"," ","n","o","p","e","(","p","r","i","n","t","(","5",")",")"," ","p","r","i","n","t","(","6",")"," ","+"," ","n","o","p","e">>
\* fx f() { { return 1 } 2 } x = f() x + 1
Src_nested_return == <<"f","x"," ","f","(",")"," ","{"," ","{"," ","r","e","t","u","r","n"," ","1"," ","}"," ","2"," ","}"," ","x"," ","="," ","f","(",")"," ","x"," ","+"," ","1">>
\* fx g() { return 7 } fx f() { y = g() return y + 1 } f()
Src_two_calls == <<"f","x"," ","g","(",")"," ","{"," ","r","e","t","u","r","n"," ","7"," ","}"," ","f","x"," ","f","(",")"," ","{"," ","y"," ","="," ","g","(",")"," ","r","e","t","u","r","n"," ","y"," ","+"," ","1"," ","}"," ","f","(",")">>
\* x = 1 return x y = 2
Src_program_return == <<"x"," ","="," ","1"," ","r","e","t","u","r","n"," ","x"," ","y"," ","="," ","2">>
\* print(1) { print(2) return 3 print(4) } print(5)
Src_block_return == <<"p","r","i","n","t","(","1",")"," ","{"," ","p","r","i","n","t","(","2",")"," ","r","e","t","u","r","n"," ","3"," ","p","r","i","n","t","(","4",")"," ","}"," ","p","r","i","n","t","(","5",")">>
\* return
\* load("hang")
Src_hang == <<"l","o","a","d","(","\"","h","a","n","g","\"",")">>

Src_return == <<"r","e","t","u","r","n">>

Sources ==
    <<Src_reload, Src_get, Src_secret, Src_a, Src_c, Src_s, Src_v, Src_err, Src_p,
      Src_counter, Src_person, Src_person_s, Src_init_returns, Src_no_init,
      Src_init_fails, Src_args, Src_bind, Src_children, Src_nested_return,
      Src_two_calls, Src_program_return, Src_block_return, Src_return, Src_hang>>

\* The number of texts one session runs.
MaxRuns == 2

\* The state the evaluator works on, as the variables hold it.
St ==
    [heap |-> heap, next_id |-> next_id, loaded_modules |-> loaded_modules,
     loading_stack |-> loading_stack, opened |-> opened, stdout |-> stdout,
     hang |-> FALSE]

Init ==
    /\ heap = ZenREPL.s.heap
    /\ next_id = ZenREPL.s.next_id
    /\ loaded_modules = ZenREPL.s.loaded_modules
    /\ loading_stack = ZenREPL.s.loading_stack
    /\ opened = ZenREPL.s.opened
    /\ stdout = ZenREPL.s.stdout
    /\ source = 0
    /\ errors = <<>>
    /\ program = None
    /\ result = None
    /\ runs = 0
    /\ hung = FALSE
    /\ tokens = <<>>
    /\ current_pos = 0
    /\ statements = <<>>
    /\ parse_errors = <<>>
    /\ ppc = "returned"
    /\ regex_lexer = None
    /\ disk = Files
    /\ resolved = None

\* One call of ZenREPL._evaluate on Sources[i].
Evaluate(i) ==
    /\ runs < MaxRuns
    /\ ~hung
    /\ \E r \in {_evaluate(Sources[i], St)} :
           /\ source' = i
           /\ runs' = runs + 1
           /\ IF r.s.hang
              THEN /\ hung' = TRUE
                   /\ UNCHANGED <<heap, next_id, loaded_modules, loading_stack, opened,
                                  stdout, errors, program, result>>
              ELSE /\ hung' = FALSE
                   /\ heap' = r.s.heap
                   /\ next_id' = r.s.next_id
                   /\ loaded_modules' = r.s.loaded_modules
                   /\ loading_stack' = r.s.loading_stack
                   /\ opened' = r.s.opened
                   /\ stdout' = r.s.stdout
                   /\ errors' = r.errors
                   /\ program' = r.program
                   /\ result' = r.result
    /\ UNCHANGED <<tokens, current_pos, statements, parse_errors, ppc>>
    /\ UNCHANGED <<regex_lexer, disk, resolved>>

Next == \E i \in 1..Len(Sources) : Evaluate(i)

Spec == Init /\ [][Next]_vars

(***************************************************************************)
(* parse_program step by step (parser/parser.py), one iteration of its     *)
(* `while` loop per step, on the tokens of every text of at most MaxWords  *)
(* words of Words: return a = 1 ( { } -                                    *)
(***************************************************************************)
Words ==
    <<<<"r","e","t","u","r","n">>, <<"a">>, <<"=">>, <<"1">>,
      <<"(">>, <<"{">>, <<"}">>, <<"-">>>>

MaxWords == 2

WordTexts ==
    UNION {[1..n -> 1..Len(Words)] : n \in 0..MaxWords}

\* The text of the words w[1] .. w[n], blanks between them.
TextOf(w) == Join(<<" ">>, [k \in 1..Len(w) |-> Words[w[k]]])

\* The Parser object as the variables hold it.
ParserState ==
    [tokens |-> tokens, current_pos |-> current_pos, errors |-> parse_errors,
     hang |-> FALSE]

InitParse ==
    /\ heap = ZenREPL.s.heap
    /\ next_id = ZenREPL.s.next_id
    /\ loaded_modules = ZenREPL.s.loaded_modules
    /\ loading_stack = ZenREPL.s.loading_stack
    /\ opened = ZenREPL.s.opened
    /\ stdout = ZenREPL.s.stdout
    /\ source = 0
    /\ errors = <<>>
    /\ program = None
    /\ result = None
    /\ runs = 0
    /\ hung = FALSE
    /\ \E w \in WordTexts : tokens = tokenize(TextOf(w)).tokens
    /\ current_pos = 0
    /\ statements = <<>>
    /\ parse_errors = <<>>
    /\ ppc = "loop"
    /\ regex_lexer = None
    /\ disk = Files
    /\ resolved = None

\* One iteration of the loop of parse_program: the test of the loop
\* condition and the body.  A _parse_statement that does not return leaves
\* the parser where it is.
ParseStatement ==
    /\ ppc = "loop"
    /\ ~_current_token_is(ParserState, "EOF")
    /\ \E s \in {_parse_statement(ParserState)} :
           IF s.p.hang
           THEN UNCHANGED <<current_pos, parse_errors, statements>>
           ELSE /\ current_pos' = _advance(s.p).current_pos
                /\ parse_errors' = _advance(s.p).errors
                /\ statements' = IF s.node # None THEN Append(statements, s.node)
                                 ELSE statements
    /\ UNCHANGED <<heap, next_id, loaded_modules, loading_stack, opened, stdout, source,
                   errors, program, result, runs, hung, tokens, ppc>>
    /\ UNCHANGED <<regex_lexer, disk, resolved>>

\* The loop condition fails on the EOF token: parse_program returns.
ParseReturn ==
    /\ ppc = "loop"
    /\ _current_token_is(ParserState, "EOF")
    /\ ppc' = "returned"
    /\ program' = Program(statements)
    /\ UNCHANGED <<heap, next_id, loaded_modules, loading_stack, opened, stdout, source,
                   errors, result, runs, hung, tokens, current_pos, statements,
                   parse_errors>>
    /\ UNCHANGED <<regex_lexer, disk, resolved>>

NextParse == ParseStatement \/ ParseReturn

SpecParse == InitParse /\ [][NextParse]_vars

\* The loop of parse_program is run by one thread that is never suspended.
FairSpecParse == SpecParse /\ WF_vars(NextParse)

(***************************************************************************)
(* One text taken from the lexer to the evaluator in a fresh session       *)
(* (zen_repl.py): parse_program step by step as above, then the rest of    *)
(* ZenREPL._evaluate.                                                      *)
(***************************************************************************)
\* Node.string() (zen_ast/ast.py): the printed form of an AST.
RECURSIVE string(_)
string(node) ==
    CASE node.kind = "Program" ->
           Join(<<"\n">>, [k \in 1..Len(node.statements) |-> string(node.statements[k])])
      [] node.kind = "PackageStatement" -> <<"b","a","g"," ">> \o node.name
      [] node.kind = "LoadStatement" ->
           <<"l","o","a","d","(">> \o Join(<<","," ">>, [k \in 1..Len(node.imports) |->
                                        <<"\"">> \o node.imports[k] \o <<"\"">>]) \o <<")">>
      [] node.kind = "FunctionStatement" ->
           <<"f","x"," ">> \o node.name \o <<"(">> \o Join(<<","," ">>, node.parameters) \o <<")"," ">>
           \o string(node.body)
      [] node.kind = "ClassStatement" ->
           <<"c","l","x"," ">> \o node.name \o <<" ", "{", "\n">>
           \o Join(<<"\n">>, [k \in 1..Len(node.methods) |-> string(node.methods[k])])
           \o <<"\n", "}">>
      [] node.kind = "ReturnStatement" ->
           IF node.value # None THEN <<"r","e","t","u","r","n"," ">> \o string(node.value) ELSE <<"r","e","t","u","r","n">>
      [] node.kind = "ExpressionStatement" -> string(node.expression)
      [] node.kind = "AssignStatement" ->
           string(node.target) \o <<" ","="," ">> \o string(node.value)
      [] node.kind = "BlockStatement" ->
           <<"{", "\n">>
           \o Join(<<"\n">>, [k \in 1..Len(node.statements) |-> string(node.statements[k])])
           \o <<"\n", "}">>
      [] node.kind = "Identifier" -> node.value
      [] node.kind = "IntegerLiteral" -> IntToText(node.value)
      [] node.kind = "StringLiteral" -> <<"\"">> \o node.value \o <<"\"">>
      [] node.kind = "BooleanLiteral" -> IF node.value THEN <<"t","r","u","e">> ELSE <<"f","a","l","s","e">>
      [] node.kind = "NilLiteral" -> <<"n","i","l">>
      [] node.kind = "SelfExpression" -> <<"s","e","l","f">>
      [] node.kind = "PrefixExpression" ->
           <<"(">> \o node.operator \o string(node.right) \o <<")">>
      [] node.kind = "InfixExpression" ->
           <<"(">> \o string(node.left) \o <<" ">> \o node.operator \o <<" ">>
           \o string(node.right) \o <<")">>
      [] node.kind = "CallExpression" ->
           string(node.function) \o <<"(">>
           \o Join(<<","," ">>, [k \in 1..Len(node.arguments) |-> string(node.arguments[k])])
           \o <<")">>
      [] node.kind = "MemberAccessExpression" ->
           string(node.object) \o <<".">> \o node.member

\* x = 1 fx f() { return x } fx g() { x = 2 y = 3 return f() } g()
Txt_scope == <<"x"," ","="," ","1"," ","f","x"," ","f","(",")"," ","{"," ","r","e","t","u","r","n"," ","x"," ","}"," ","f","x"," ","g","(",")"," ","{"," ","x"," ","="," ","2"," ","y"," ","="," ","3"," ","r","e","t","u","r","n"," ","f","(",")"," ","}"," ","g","(",")">>
\* fx f() { return y } fx g() { y = 3 return f() } g()
Txt_caller_only == <<"f","x"," ","f","(",")"," ","{"," ","r","e","t","u","r","n"," ","y"," ","}"," ","f","x"," ","g","(",")"," ","{"," ","y"," ","="," ","3"," ","r","e","t","u","r","n"," ","f","(",")"," ","}"," ","g","(",")">>
\* fx h(a) { c = a return c } u = h(5) v = h(6) c
Txt_local == <<"f","x"," ","h","(","a",")"," ","{"," ","c"," ","="," ","a"," ","r","e","t","u","r","n"," ","c"," ","}"," ","u"," ","="," ","h","(","5",")"," ","v"," ","="," ","h","(","6",")"," ","c">>
\* fx k(a, b) { a = b return a } p = 1 q = k(p, 2) p
Txt_params == <<"f","x"," ","k","(","a",","," ","b",")"," ","{"," ","a"," ","="," ","b"," ","r","e","t","u","r","n"," ","a"," ","}"," ","p"," ","="," ","1"," ","q"," ","="," ","k","(","p",","," ","2",")"," ","p">>

\* clx C { fx v() { return 1 } fx me() { return self } } o = C() p = C()
\* o.v = 5 w = o.v t = p.v() x = o.me() y = p.me() z = o.me() o.none
Txt_members == <<"c","l","x"," ","C"," ","{"," ","f","x"," ","v","(",")"," ","{"," ","r","e","t","u","r","n"," ","1"," ","}"," ","f","x"," ","m","e","(",")"," ","{"," ","r","e","t","u","r","n"," ","s","e","l","f"," ","}"," ","}"," ","o"," ","="," ","C","(",")"," ","p"," ","="," ","C","(",")"," ","o",".","v"," ","="," ","5"," ","w"," ","="," ","o",".","v"," ","t"," ","="," ","p",".","v","(",")"," ","x"," ","="," ","o",".","m","e","(",")"," ","y"," ","="," ","p",".","m","e","(",")"," ","z"," ","="," ","o",".","m","e","(",")"," ","o",".","n","o","n","e">>

\* load("u") clx C { fx m() { return 1 } } fx f() { } o = C() p = C() n = 1
\* s = "s" z = nil o.k = 3 o.m = 7 g = o.m h = p.m() n.k = 1
Txt_assign == <<"l","o","a","d","(","\"","u","\"",")"," ","c","l","x"," ","C"," ","{"," ","f","x"," ","m","(",")"," ","{"," ","r","e","t","u","r","n"," ","1"," ","}"," ","}"," ","f","x"," ","f","(",")"," ","{"," ","}"," ","o"," ","="," ","C","(",")"," ","p"," ","="," ","C","(",")"," ","n"," ","="," ","1"," ","s"," ","="," ","\"","s","\""," ","z"," ","="," ","n","i","l"," ","o",".","k"," ","="," ","3"," ","o",".","m"," ","="," ","7"," ","g"," ","="," ","o",".","m"," ","h"," ","="," ","p",".","m","(",")"," ","n",".","k"," ","="," ","1">>

\* false && print(1)
Txt_and == <<"f","a","l","s","e"," ","&","&"," ","p","r","i","n","t","(","1",")">>
\* true || nope
Txt_or == <<"t","r","u","e"," ","|","|"," ","n","o","p","e">>

\* clx C { fx m() { } } a = C() b = C() a.k = 1 b.k = 1 e = a == b i = a == a
\* d = a != b j = a.m == a.m c = C.m == C.m n = nil == nil t = 1 == "1"
Txt_equal == <<"c","l","x"," ","C"," ","{"," ","f","x"," ","m","(",")"," ","{"," ","}"," ","}"," ","a"," ","="," ","C","(",")"," ","b"," ","="," ","C","(",")"," ","a",".","k"," ","="," ","1"," ","b",".","k"," ","="," ","1"," ","e"," ","="," ","a"," ","=","="," ","b"," ","i"," ","="," ","a"," ","=","="," ","a"," ","d"," ","="," ","a"," ","!","="," ","b"," ","j"," ","="," ","a",".","m"," ","=","="," ","a",".","m"," ","c"," ","="," ","C",".","m"," ","=","="," ","C",".","m"," ","n"," ","="," ","n","i","l"," ","=","="," ","n","i","l"," ","t"," ","="," ","1"," ","=","="," ","\"","1","\"">>

\* Texts applying `!` to a literal, a Builtin, and the Booleans that
\* comparison, equality and bool() produce, each with the value `!` is to
\* yield.
BangCases ==
    << [text |-> <<"!","t","r","u","e">>, value |-> ZEN_FALSE],
       [text |-> <<"!","f","a","l","s","e">>, value |-> ZEN_TRUE],
       [text |-> <<"!","n","i","l">>, value |-> ZEN_TRUE],
       [text |-> <<"!","0">>, value |-> ZEN_FALSE],
       [text |-> <<"!","5">>, value |-> ZEN_FALSE],
       [text |-> <<"!","\"","\"">>, value |-> ZEN_FALSE],
       [text |-> <<"!","\"","a","\"">>, value |-> ZEN_FALSE],
       [text |-> <<"!","p","r","i","n","t">>, value |-> ZEN_FALSE],
       [text |-> <<"!","(","1"," ","=","="," ","1",")">>, value |-> ZEN_FALSE],
       [text |-> <<"!","(","1"," ","<"," ","2",")">>, value |-> ZEN_FALSE],
       [text |-> <<"!","(","2"," ","<"," ","1",")">>, value |-> ZEN_TRUE],
       [text |-> <<"!","(","n","i","l"," ","!","="," ","n","i","l",")">>, value |-> ZEN_TRUE],
       [text |-> <<"!","(","\"","a","\""," ","=","="," ","\"","a","\"",")">>, value |-> ZEN_FALSE],
       [text |-> <<"!","b","o","o","l","(","0",")">>, value |-> ZEN_TRUE],
       [text |-> <<"!","b","o","o","l","(","1",")">>, value |-> ZEN_FALSE],
       [text |-> <<"!","!","0">>, value |-> ZEN_TRUE] >>

\* The largest absolute value of an operand of `/` in the texts run.
MaxOperand == 7

Operands == (0 - MaxOperand)..MaxOperand

\* The text `a / b`, a negative number written with its minus sign.
DivText(a, b) == IntToText(a) \o <<" ","/"," ">> \o IntToText(b)

\* The texts `a / b` for all operands a and b, row by row.
DivTexts ==
    [k \in 1..((2 * MaxOperand + 1) * (2 * MaxOperand + 1)) |->
        DivText(((k - 1) \div (2 * MaxOperand + 1)) - MaxOperand,
                ((k - 1) % (2 * MaxOperand + 1)) - MaxOperand)]

\* The binary operators, from the lowest level of precedence to the highest.
Ladder ==
    << {<<"|","|">>}, {<<"&","&">>}, {<<"=","=">>, <<"!","=">>}, {<<"<">>, <<">">>, <<"<","=">>, <<">","=">>},
       {<<"+">>, <<"-">>}, {<<"*">>, <<"/">>} >>

BinaryOperators ==
    << <<"|","|">>, <<"&","&">>, <<"=","=">>, <<"!","=">>, <<"<">>, <<">">>, <<"<","=">>, <<">","=">>, <<"+">>, <<"-">>, <<"*">>, <<"/">> >>

\* The texts `a op1 b op2 c` for all binary operators op1 and op2.
TwoOperatorTexts ==
    [k \in 1..(Len(BinaryOperators) * Len(BinaryOperators)) |->
        <<"a"," ">> \o BinaryOperators[((k - 1) \div Len(BinaryOperators)) + 1] \o <<" ","b"," ">>
        \o BinaryOperators[((k - 1) % Len(BinaryOperators)) + 1] \o <<" ","c">>]

\* The texts `-a op b` and `!a op b` for all binary operators op.
PrefixOperatorTexts ==
    [k \in 1..(2 * Len(BinaryOperators)) |->
        (IF k <= Len(BinaryOperators) THEN <<"-","a"," ">> ELSE <<"!","a"," ">>)
        \o BinaryOperators[((k - 1) % Len(BinaryOperators)) + 1] \o <<" ","b">>]

\* a.b.c
Txt_chain == <<"a",".","b",".","c">>

\* Texts assigning to a target that is neither a name nor a member.
TargetTexts ==
    << <<"s","e","l","f"," ","="," ","1">>, <<"5"," ","="," ","1">>, <<"f","(",")"," ","="," ","1">>, <<"a"," ","+"," ","b"," ","="," ","1">>, <<"-","a"," ","="," ","1">>, <<"\"","s","\""," ","="," ","1">>,
       <<"n","i","l"," ","="," ","1">>, <<"p","r","i","n","t","(","1",")"," ","="," ","p","r","i","n","t","(","2",")">> >>

\* clx C { fx m() { self = 1 } } o = C() o.m()
Txt_self_assign == <<"c","l","x"," ","C"," ","{"," ","f","x"," ","m","(",")"," ","{"," ","s","e","l","f"," ","="," ","1"," ","}"," ","}"," ","o"," ","="," ","C","(",")"," ","o",".","m","(",")">>

\* fx f() { return } x = 1
Txt_bare_return == <<"f","x"," ","f","(",")"," ","{"," ","r","e","t","u","r","n"," ","}"," ","x"," ","="," ","1">>

\* The texts a session is started with.
Scripts == <<Txt_scope, Txt_caller_only, Txt_local, Txt_params, Txt_members, Txt_assign,
      Txt_and, Txt_or, Txt_equal, Txt_chain,
      Txt_self_assign, Txt_bare_return>>
    \o TargetTexts
    \o [k \in 1..Len(BangCases) |-> BangCases[k].text]
    \o DivTexts \o TwoOperatorTexts \o PrefixOperatorTexts

\* The tokens of each text of Scripts.
ScriptTokens == [i \in 1..Len(Scripts) |-> tokenize(Scripts[i]).tokens]

TokensOf(text) == ScriptTokens[CHOOSE i \in 1..Len(Scripts) : Scripts[i] = text]

InitText ==
    /\ heap = ZenREPL.s.heap
    /\ next_id = ZenREPL.s.next_id
    /\ loaded_modules = ZenREPL.s.loaded_modules
    /\ loading_stack = ZenREPL.s.loading_stack
    /\ opened = ZenREPL.s.opened
    /\ stdout = ZenREPL.s.stdout
    /\ source = 0
    /\ errors = <<>>
    /\ program = None
    /\ result = None
    /\ runs = 0
    /\ hung = FALSE
    /\ \E i \in 1..Len(Scripts) : tokens = ScriptTokens[i]
    /\ current_pos = 0
    /\ statements = <<>>
    /\ parse_errors = <<>>
    /\ ppc = "loop"
    /\ regex_lexer = None
    /\ disk = Files
    /\ resolved = None

\* ZenREPL._evaluate once parse_program has returned: the parser's errors
\* are printed, or the program is evaluated in the environment of the
\* session and the message of an Error it yields is printed.
EvalParsed ==
    /\ ppc = "returned"
    /\ runs = 0
    /\ program # None
    /\ runs' = 1
    /\ errors' = parse_errors
    /\ IF Len(parse_errors) > 0
       THEN /\ stdout' = PrintLines(St, "Parse Error: ", parse_errors).stdout
            /\ UNCHANGED <<heap, next_id, loaded_modules, loading_stack, opened, result,
                           hung>>
       ELSE \E r \in {eval_node(program, environment, St)} :
                IF r.s.hang
                THEN /\ hung' = TRUE
                     /\ UNCHANGED <<heap, next_id, loaded_modules, loading_stack, opened,
                                    stdout, result>>
                ELSE /\ hung' = FALSE
                     /\ heap' = r.s.heap
                     /\ next_id' = r.s.next_id
                     /\ loaded_modules' = r.s.loaded_modules
                     /\ loading_stack' = r.s.loading_stack
                     /\ opened' = r.s.opened
                     /\ stdout' = IF is_error(r.val)
                                  THEN PrintLines(r.s, "Runtime Error: ",
                                                  <<r.val.message>>).stdout
                                  ELSE r.s.stdout
                     /\ result' = r.val
    /\ UNCHANGED <<source, program, tokens, current_pos, statements, parse_errors, ppc>>
    /\ UNCHANGED <<regex_lexer, disk, resolved>>

NextText == ParseStatement \/ ParseReturn \/ EvalParsed

SpecText == InitText /\ [][NextText]_vars

\* The text has been run to its end: parsed and evaluated.
Ran(text) == ppc = "returned" /\ runs = 1 /\ ~hung /\ tokens = TokensOf(text)

(***************************************************************************)
(* Environments on their own (object/environment.py): frames are created   *)
(* with or without an outer frame and written with set, define and update. *)
(* Up to MaxFrames frames, the names x and y, the values 1 and 2.          *)
(***************************************************************************)
MaxFrames == 3

EnvNames == {<<"x">>, <<"y">>}

EnvValues == {Integer(1), Integer(2)}

InitEnv ==
    /\ heap = NewEnvironment([ZenREPL.s EXCEPT !.heap = <<>>], 0).s.heap
    /\ next_id = ZenREPL.s.next_id
    /\ loaded_modules = ZenREPL.s.loaded_modules
    /\ loading_stack = ZenREPL.s.loading_stack
    /\ opened = ZenREPL.s.opened
    /\ stdout = ZenREPL.s.stdout
    /\ source = 0
    /\ errors = <<>>
    /\ program = None
    /\ result = None
    /\ runs = 0
    /\ hung = FALSE
    /\ tokens = <<>>
    /\ current_pos = 0
    /\ statements = <<>>
    /\ parse_errors = <<>>
    /\ ppc = "returned"
    /\ regex_lexer = None
    /\ disk = Files
    /\ resolved = None

\* Environment(outer), outer 0 standing for None.
EnvNew(outer) ==
    /\ Len(heap) < MaxFrames
    /\ heap' = NewEnvironment(St, outer).s.heap
    /\ UNCHANGED <<next_id, loaded_modules, loading_stack, opened, stdout, source, errors,
                   program, result, runs, hung, tokens, current_pos, statements,
                   parse_errors, ppc, regex_lexer, disk, resolved>>

EnvSet(e, name, value) ==
    /\ heap' = Environment_set(St, e, name, value).heap
    /\ UNCHANGED <<next_id, loaded_modules, loading_stack, opened, stdout, source, errors,
                   program, result, runs, hung, tokens, current_pos, statements,
                   parse_errors, ppc, regex_lexer, disk, resolved>>

EnvDefine(e, name, value) ==
    /\ heap' = Environment_define(St, e, name, value).heap
    /\ UNCHANGED <<next_id, loaded_modules, loading_stack, opened, stdout, source, errors,
                   program, result, runs, hung, tokens, current_pos, statements,
                   parse_errors, ppc, regex_lexer, disk, resolved>>

EnvUpdate(e, name, value) ==
    /\ heap' = Environment_update(St, e, name, value).s.heap
    /\ UNCHANGED <<next_id, loaded_modules, loading_stack, opened, stdout, source, errors,
                   program, result, runs, hung, tokens, current_pos, statements,
                   parse_errors, ppc, regex_lexer, disk, resolved>>

NextEnv ==
    \/ \E outer \in 0..Len(heap) : EnvNew(outer)
    \/ \E e \in 1..Len(heap) : \E name \in EnvNames : \E value \in EnvValues :
           EnvSet(e, name, value)
    \/ \E e \in 1..Len(heap) : \E name \in EnvNames : \E value \in EnvValues :
           EnvDefine(e, name, value)
    \/ \E e \in 1..Len(heap) : \E name \in EnvNames : \E value \in EnvValues :
           EnvUpdate(e, name, value)

SpecEnv == InitEnv /\ [][NextEnv]_vars

(***************************************************************************)
(* Resolution of module paths over the files there may be                  *)
(*                                                                         *)
(* disk is any set of at most MaxOnDisk of the files below that a file     *)
(* system can hold (no file is a directory of another); a step resolves    *)
(* one import path as load_module does.                                    *)
(***************************************************************************)
MaxOnDisk == 3

ImportPaths == {<<"q">>, <<"q",".","z","e","n">>, <<"l","i","b","/","q">>}

DiskFiles ==
    {<<"/","w","/","q">>, <<"/","w","/","q",".","z","e","n">>, <<"/","w","/","q","/","m","a","i","n",".","z","e","n">>, <<"/","w","/","q","/","i","n","d","e","x",".","z","e","n">>, <<"/","w","/","q",".","z","e","n",".","z","e","n">>,
     <<"/","w","/","e","x","a","m","p","l","e","s","/","q",".","z","e","n">>, <<"/","w","/","e","x","a","m","p","l","e","s","/","q","/","m","a","i","n",".","z","e","n">>,
     <<"/","w","/","l","i","b","/","q">>, <<"/","w","/","l","i","b","/","q",".","z","e","n">>, <<"/","w","/","l","i","b","/","q","/","i","n","d","e","x",".","z","e","n">>, <<"/","w","/","l","i","b","/","l","i","b","/","q",".","z","e","n">>,
     <<"/","w","/","m","o","d","u","l","e","s","/","q",".","z","e","n">>, <<"/","w","/","m","o","d","u","l","e","s","/","q","/","i","n","d","e","x",".","z","e","n">>}

\* No file of the set is a directory on the way to another.
IsFileSystem(files) ==
    \A f \in files : \A g \in files : ~startswith(g, f \o <<"/">>)

InitResolve ==
    /\ heap = ZenREPL.s.heap
    /\ next_id = ZenREPL.s.next_id
    /\ loaded_modules = ZenREPL.s.loaded_modules
    /\ loading_stack = ZenREPL.s.loading_stack
    /\ opened = ZenREPL.s.opened
    /\ stdout = ZenREPL.s.stdout
    /\ source = 0
    /\ errors = <<>>
    /\ program = None
    /\ result = None
    /\ runs = 0
    /\ hung = FALSE
    /\ tokens = <<>>
    /\ current_pos = 0
    /\ statements = <<>>
    /\ parse_errors = <<>>
    /\ ppc = "returned"
    /\ regex_lexer = None
    /\ resolved = None
    /\ \E files \in SUBSET DiskFiles :
           /\ Cardinality(files) <= MaxOnDisk
           /\ IsFileSystem(files)
           /\ disk = [f \in files |-> <<>>]

\* load_module up to the test of the path found: the path resolved from
\* the working directory, and the Error returned when there is none.
Resolve(module_path) ==
    /\ resolved' = Let([file_path \in {resolve_module_path(disk, CWD, module_path, CWD)} |->
                       [module_path |-> module_path,
                        file_path |-> file_path,
                        val |-> IF file_path = None
                                THEN Error(<<"Module not found: ", module_path>>)
                                ELSE None]])
    /\ UNCHANGED <<heap, next_id, loaded_modules, loading_stack, opened, stdout, source,
                   errors, program, result, runs, hung, tokens, current_pos, statements,
                   parse_errors, ppc, regex_lexer, disk>>

NextResolve == \E module_path \in ImportPaths : Resolve(module_path)

SpecResolve == InitResolve /\ [][NextResolve]_vars

(***************************************************************************)
(* The lexer step by step (lexer/regex_lexer.py): tokenize on one text,    *)
(* one call of _next_token per step, then the EOF token.                   *)
(*                                                                         *)
(* The texts are the string literals with at most MaxContent characters    *)
(* between the quotes and the texts of at most MaxPieces pieces.           *)
(***************************************************************************)
MaxContent == 3
MaxPieces == 3

ContentChars == {"\\", "\"", "n", "t", "r", "q"}

StringTexts ==
    {<<"\"">> \o content \o <<"\"">> :
        content \in UNION {[1..n -> ContentChars] : n \in 0..MaxContent}}

\* a word, a number, a newline, blanks, a comment to the end of the line,
\* a block comment of two lines and a string of two lines
Pieces == {<<"a","b">>, <<"7">>, <<"\n">>, <<" ", "\t">>, <<"/","/","c">>,
           <<"/","*","x","\n","y"," ","*","/">>, <<"\"","x","\n","y","\"">>}

PieceTexts ==
    {Join(<<>>, pieces) : pieces \in UNION {[1..n -> Pieces] : n \in 0..MaxPieces}}

InitLex ==
    /\ heap = ZenREPL.s.heap
    /\ next_id = ZenREPL.s.next_id
    /\ loaded_modules = ZenREPL.s.loaded_modules
    /\ loading_stack = ZenREPL.s.loading_stack
    /\ opened = ZenREPL.s.opened
    /\ stdout = ZenREPL.s.stdout
    /\ source = 0
    /\ errors = <<>>
    /\ program = None
    /\ result = None
    /\ runs = 0
    /\ hung = FALSE
    /\ tokens = <<>>
    /\ current_pos = 0
    /\ statements = <<>>
    /\ parse_errors = <<>>
    /\ ppc = "returned"
    /\ disk = Files
    /\ resolved = None
    /\ \E input_text \in StringTexts \cup PieceTexts :
           regex_lexer = [input_text |-> input_text, position |-> 0, line |-> 1,
                          column |-> 1, tokens |-> <<>>, raised |-> FALSE,
                          returned |-> FALSE]

\* One turn of the loop of tokenize: a call of _next_token.
Tokenize_next_token ==
    /\ ~regex_lexer.raised
    /\ ~regex_lexer.returned
    /\ regex_lexer.position < Len(regex_lexer.input_text)
    /\ regex_lexer' = _next_token_with_keyword_check(regex_lexer)
    /\ UNCHANGED <<heap, next_id, loaded_modules, loading_stack, opened, stdout, source,
                   errors, program, result, runs, hung, tokens, current_pos, statements,
                   parse_errors, ppc, disk, resolved>>

\* The loop of tokenize has ended: the EOF token is added and the tokens
\* are returned.
Tokenize_EOF ==
    /\ ~regex_lexer.raised
    /\ ~regex_lexer.returned
    /\ regex_lexer.position >= Len(regex_lexer.input_text)
    /\ regex_lexer' = [regex_lexer EXCEPT
                          !.tokens = Append(@, Token("EOF", None, regex_lexer.line,
                                                     regex_lexer.column)),
                          !.returned = TRUE]
    /\ UNCHANGED <<heap, next_id, loaded_modules, loading_stack, opened, stdout, source,
                   errors, program, result, runs, hung, tokens, current_pos, statements,
                   parse_errors, ppc, disk, resolved>>

NextLex == Tokenize_next_token \/ Tokenize_EOF

SpecLex == InitLex /\ [][NextLex]_vars

(***************************************************************************)
(* Properties of the module system                                         *)
(***************************************************************************)
\* C1: once a path is cached, loading it again from any environment returns
\* the cached Module, binds it under its short name in that environment and
\* does nothing else (no file is opened, nothing is evaluated or printed);
\* the file of a cached path has been opened exactly once for that path.
C1_ReimportIdempotent ==
    \A i \in 1..Len(loaded_modules) : \A e \in 1..Len(heap) :
        LET p == loaded_modules[i].key
            M == loaded_modules[i].val
        IN  \A r \in {load_module(p, e, St)} :
                /\ r.val = M
                /\ r.s = Environment_set(St, e, extract_module_name(p), M)
                /\ Cardinality({k \in 1..Len(opened) : opened[k].module_path = p}) = 1

\* A run has loaded m twice and found both loads to give the same object.
C1_Witness ==
    /\ source # 0
    /\ Sources[source] = Src_reload
    /\ result = ZEN_TRUE
    /\ \E i \in 1..Len(loaded_modules) : loaded_modules[i].key = <<"m">>

\* The module paths a session can name.
ModulePaths ==
    <<<<"m">>, <<"a">>, <<"b">>, <<"c">>, <<"s">>, <<"v">>, <<"e","r","r">>, <<"p">>, <<"u">>, <<"b","a","d">>,
      <<"l","e","x">>, <<"n","o","p","e">>>>

\* The path the first statement of module p loads, when it is a load
\* statement; None otherwise.
FirstLoad(p) ==
    Let([f \in {resolve_module_path(Files, CWD, p, CWD)} |->
        IF f = None THEN None
        ELSE Let([lexer \in {tokenize(Files[f.value])} |->
                 IF lexer.raised THEN None
                 ELSE Let([prog \in {parse_program(Parser(lexer.tokens)).node} |->
                          IF Len(prog.statements) = 0 THEN None
                          ELSE IF prog.statements[1].kind # "LoadStatement" THEN None
                          ELSE IF Len(prog.statements[1].imports) = 0 THEN None
                          ELSE [type |-> "str",
                                value |-> prog.statements[1].imports[1]]])])])

\* Following the chain of first loads from p with the paths of inflight in
\* flight: the path whose load closes a cycle, None when the chain ends.
RECURSIVE CycleAt(_, _)
CycleAt(p, inflight) ==
    IF \E k \in 1..Len(inflight) : inflight[k] = p THEN [type |-> "str", value |-> p]
    ELSE Let([q \in {FirstLoad(p)} |->
             IF q = None THEN None ELSE CycleAt(q.value, Append(inflight, p))])

\* For every path of ModulePaths, the path whose load closes a cycle of the
\* chain of loads starting at it, None when there is no cycle.
Cycles == [k \in 1..Len(ModulePaths) |-> CycleAt(ModulePaths[k], <<>>)]

\* C2: when the chain of loads starting at a path runs into a cycle, loading
\* that path returns the Error "Circular import detected: q", q being the
\* first path loaded while in flight; the load finishes, with nothing left
\* in flight and nothing cached.
C2_CircularImport ==
    \A k \in 1..Len(ModulePaths) :
        \A c \in {Cycles[k]} :
            c # None =>
                \A r \in {load_module(ModulePaths[k], environment, St)} :
                    /\ r.val = Error(<<"Circular import detected: ", c.value>>)
                    /\ r.s.loading_stack = loading_stack
                    /\ r.s.loaded_modules = loaded_modules

\* A run has loaded c, which loads a, which loads b, which loads a.
C2_Witness ==
    /\ source # 0
    /\ Sources[source] = Src_c
    /\ result = Error(<<"Circular import detected: ", <<"a">>>>)
    /\ Len(opened) >= 3

\* The names member access is tried with on a module whose top-level
\* environment is priv.
MemberNames(priv) == DOMAIN priv \cup {<<"n","o","p","e">>, <<"N","o","p","e">>, <<"_","x">>}

\* C3: for every module bound anywhere and every name n, module.n is the
\* value n has in the module's top-level environment when n is bound there
\* and starts with an uppercase letter, and an Error for every other n; the
\* exported function Get of a module returns secret + 1 although secret is
\* private.
C3_ModuleVisibility ==
    \A e \in 1..Len(heap) : \A x \in DOMAIN heap[e].store :
        heap[e].store[x].type = "MODULE" =>
            LET M == heap[e].store[x]
                priv == heap[M.private_env].store
            IN  /\ \A n \in MemberNames(priv) :
                      LET r == eval_node(MemberAccessExpression(Identifier(x), n), e, St).val
                      IN  IF n \in DOMAIN priv /\ n[1] \in UpperCase
                          THEN r = priv[n]
                          ELSE is_error(r)
                /\ (<<"G","e","t">> \in DOMAIN priv /\ <<"s","e","c","r","e","t">> \in DOMAIN priv) =>
                      eval_node(CallExpression(MemberAccessExpression(Identifier(x), <<"G","e","t">>),
                                               <<>>), e, St).val
                        = Integer(priv[<<"s","e","c","r","e","t">>].value + 1)

\* A run has loaded m, whose top level binds secret, Get and Value, and has
\* been refused m.secret.
C3_Witness ==
    /\ source # 0
    /\ Sources[source] = Src_secret
    /\ is_error(result)
    /\ <<"m">> \in DOMAIN heap[environment].store
    /\ heap[environment].store[<<"m">>].type = "MODULE"
    /\ heap[heap[environment].store[<<"m">>].private_env].store[<<"s","e","c","r","e","t">>] = Integer(41)

(***************************************************************************)
(* Properties of evaluation                                                *)
(***************************************************************************)
\* The texts the evaluator is given a program of: those of Sources and of
\* Files that the lexer accepts and the parser returns from without errors.
Texts ==
    {t \in {Sources[i] : i \in 1..Len(Sources)} \cup {Files[f] : f \in DOMAIN Files} :
        /\ ~tokenize(t).raised
        /\ ~parse_program(Parser(tokenize(t).tokens)).p.hang
        /\ Len(parse_program(Parser(tokenize(t).tokens)).p.errors) = 0}

Programs == {parse_program(Parser(tokenize(t).tokens)).node : t \in Texts}

\* The node and every node below it.
RECURSIVE SubNodes(_)
SubNodes(node) ==
    {node} \cup
    CASE node.kind \in {"Program", "BlockStatement"} ->
           UNION {SubNodes(node.statements[k]) : k \in 1..Len(node.statements)}
      [] node.kind = "ExpressionStatement" -> SubNodes(node.expression)
      [] node.kind = "ReturnStatement" ->
           IF node.value = None THEN {} ELSE SubNodes(node.value)
      [] node.kind = "AssignStatement" -> SubNodes(node.target) \cup SubNodes(node.value)
      [] node.kind = "FunctionStatement" -> SubNodes(node.body)
      [] node.kind = "ClassStatement" ->
           UNION {SubNodes(node.methods[k]) : k \in 1..Len(node.methods)}
      [] node.kind = "PrefixExpression" -> SubNodes(node.right)
      [] node.kind = "InfixExpression" -> SubNodes(node.left) \cup SubNodes(node.right)
      [] node.kind = "CallExpression" ->
           SubNodes(node.function) \cup
           UNION {SubNodes(node.arguments[k]) : k \in 1..Len(node.arguments)}
      [] node.kind = "MemberAccessExpression" -> SubNodes(node.object)
      [] OTHER -> {}

Nodes == UNION {SubNodes(p) : p \in Programs}

\* The children of a node whose values the node's evaluation reads, in the
\* order it evaluates them.
ChildrenOf(node) ==
    CASE node.kind = "PrefixExpression" -> <<node.right>>
      [] node.kind = "InfixExpression" -> <<node.left, node.right>>
      [] node.kind = "CallExpression" -> <<node.function>> \o node.arguments
      [] node.kind = "ReturnStatement" ->
           IF node.value = None THEN <<>> ELSE <<node.value>>
      [] node.kind = "AssignStatement" ->
           IF node.target.kind = "MemberAccessExpression"
           THEN <<node.value, node.target.object>>
           ELSE <<node.value>>
      [] node.kind = "MemberAccessExpression" -> <<node.object>>
      [] OTHER -> <<>>

\* The children from child i on evaluated one after the other, each in the
\* state the one before left: the result [val, s] of the first to yield an
\* Error, None when none does.
RECURSIVE FirstError(_, _, _, _)
FirstError(children, i, env, S) ==
    IF i > Len(children) THEN None
    ELSE Let([r \in {eval_node(children[i], env, S)} |->
             IF is_error(r.val) THEN r ELSE FirstError(children, i + 1, env, r.s)])

\* The argument lists a function or class is applied to.
ArgLists == {<<>>, <<Integer(1)>>, <<Integer(1), Integer(2)>>}

\* C5: when a child of a node yields an Error, the node yields that Error
\* and leaves the state that child left (no later child is evaluated,
\* nothing is bound, stored or called); the same holds for the Error of
\* __init__ in a constructor call; no Environment or instance field holds an
\* Error, and the arguments a call passes on hold none.
C5_ErrorPropagation ==
    /\ \A n \in Nodes : \A e \in 1..Len(heap) :
          \A x \in {FirstError(ChildrenOf(n), 1, e, St)} :
              x # None => eval_node(n, e, St) = x
    /\ \A n \in Nodes : \A e \in 1..Len(heap) :
          n.kind = "CallExpression" =>
              \A a \in {ArgumentsEvalLoop(n.arguments, 1, e, St, <<>>)} :
                  a.val.type = "ARGS" =>
                      \A k \in 1..Len(a.val.args) : ~is_error(a.val.args[k])
    /\ \A e \in 1..Len(heap) : \A x \in DOMAIN heap[e].store :
          /\ ~is_error(heap[e].store[x])
          /\ heap[e].store[x].type = "CLASS" =>
                \A args \in ArgLists :
                    LET cls == heap[e].store[x]
                        init_method == Class_get_method(cls, INIT)
                        f == NewEnvironment(St, 0)
                    IN  init_method # None =>
                            \A r \in {apply_user_function(
                                          init_method, <<Instance(cls, f.env)>> \o args, f.s)} :
                                is_error(r.val) => apply_class_constructor(cls, args, St) = r

\* A run of print(print(1), nope, print(2)) has printed 1, has found the
\* second argument to be an Error and has printed nothing after it.
C5_Witness ==
    /\ runs = 1
    /\ ~hung
    /\ Sources[source] = Src_args
    /\ result = Error(<<"Identifier not found: ", <<"n","o","p","e">>>>)
    /\ stdout = << <<"1">>, <<"Runtime Error: ", <<"Identifier not found: ", <<"n","o","p","e">>>>>> >>

\* The statements from statement i on evaluated one after the other, each
\* in the state the one before left, whatever they yield: their results.
RECURSIVE StatementResults(_, _, _, _)
StatementResults(stmts, i, env, S) ==
    IF i > Len(stmts) THEN <<>>
    ELSE Let([r \in {eval_node(stmts[i], env, S)} |->
             <<r>> \o StatementResults(stmts, i + 1, env, r.s)])

\* The statements of results tr that yield an Error or a ReturnValue.
Stops(tr) == {k \in 1..Len(tr) : tr[k].val.type \in {"ERROR", "RETURN_VALUE"}}

\* C6: a Program, evaluated in the environment of the session, or a Block,
\* evaluated in any Environment, yields what its first statement to yield an
\* Error or a ReturnValue yields, in the state that statement left (no later
\* statement is evaluated), a Program unwrapping the ReturnValue and a Block
\* not; when no statement yields one it yields the value of the last
\* statement in the state left by all of them in order, Nil when it has no
\* statement.
C6_StatementOrder ==
    \A n \in Nodes : \A e \in (IF n.kind = "Program" THEN {environment} ELSE 1..Len(heap)) :
        n.kind \in {"Program", "BlockStatement"} =>
            \A tr \in {StatementResults(n.statements, 1, e, St)} :
                \A r \in {eval_node(n, e, St)} :
                    IF Stops(tr) = {}
                    THEN r = (IF Len(tr) = 0 THEN E(NIL, St) ELSE tr[Len(tr)])
                    ELSE LET i == CHOOSE i \in Stops(tr) : \A j \in Stops(tr) : i <= j
                         IN  IF tr[i].val.type = "RETURN_VALUE" /\ n.kind = "Program"
                             THEN r = E(tr[i].val.value, tr[i].s)
                             ELSE r = tr[i]

\* A run of print(1) { print(2) return 3 print(4) } print(5) has yielded 3
\* and has printed 1 and 2 only.
C6_Witness ==
    /\ runs = 1
    /\ ~hung
    /\ Sources[source] = Src_block_return
    /\ result = Integer(3)
    /\ stdout = << <<"1">>, <<"2">> >>

\* C7: no call expression yields a ReturnValue and no Environment holds
\* one; a function whose body yields a ReturnValue, from whatever depth of
\* blocks, yields the object wrapped in it, in the state the body left; the
\* caller goes on with its next statement: after
\* `fx f() { { return 1 } 2 } x = f() x + 1` x is 1 and the text has yielded
\* 2, and `fx g() { return 7 } fx f() { y = g() return y + 1 } f()` yields 8.
C7_ReturnUnwindsOneCall ==
    /\ \A n \in Nodes : \A e \in 1..Len(heap) :
          n.kind = "CallExpression" => eval_node(n, e, St).val.type # "RETURN_VALUE"
    /\ \A e \in 1..Len(heap) : \A x \in DOMAIN heap[e].store :
          /\ heap[e].store[x].type # "RETURN_VALUE"
          /\ heap[e].store[x].type = "FUNCTION" =>
                \A args \in ArgLists :
                    LET fn == heap[e].store[x]
                        f == new_enclosed_environment(St, fn.env)
                    IN  Len(args) = Len(fn.parameters) =>
                            \A b \in {eval_node(fn.body, f.env,
                                                BindParameters(f.s, f.env, fn.parameters, args))} :
                                \A r \in {apply_user_function(fn, args, St)} :
                                    /\ r.val.type # "RETURN_VALUE"
                                    /\ b.val.type = "RETURN_VALUE" => r = E(b.val.value, b.s)
    /\ (source # 0 /\ ~hung /\ Sources[source] = Src_nested_return) =>
          /\ Environment_get(St, environment, <<"x">>) = Integer(1)
          /\ result = Integer(2)
    /\ (source # 0 /\ ~hung /\ Sources[source] = Src_two_calls) => result = Integer(8)

\* A run of fx f() { { return 1 } 2 } x = f() x + 1 has bound x to 1 and
\* yielded 2.
C7_Witness ==
    /\ source # 0
    /\ ~hung
    /\ Sources[source] = Src_nested_return
    /\ Environment_get(St, environment, <<"x">>) = Integer(1)
    /\ result = Integer(2)

\* C10: a Class applied to args yields a new Instance of it with no field
\* when it has no __init__, whatever args is; when it has one, what __init__
\* applied to the Instance followed by args yields when that is an Error,
\* as it is when their number is not that of its parameters, and else the
\* Instance in the state __init__ left, whatever __init__ yielded.
C10_ConstructorResult ==
    \A e \in 1..Len(heap) : \A x \in DOMAIN heap[e].store :
        heap[e].store[x].type = "CLASS" =>
            \A args \in ArgLists :
                LET cls == heap[e].store[x]
                    init_method == Class_get_method(cls, INIT)
                    f == NewEnvironment(St, 0)
                    instance == Instance(cls, f.env)
                IN  \A r \in {apply_class_constructor(cls, args, St)} :
                        /\ f.env \notin 1..Len(heap)
                        /\ DOMAIN f.s.heap[f.env].store = {}
                        /\ IF init_method = None THEN r = E(instance, f.s)
                           ELSE \A a \in {apply_user_function(init_method,
                                                              <<instance>> \o args, f.s)} :
                                    /\ Len(args) + 1 # Len(init_method.parameters) =>
                                           is_error(a.val)
                                    /\ IF is_error(a.val) THEN r = a
                                       ELSE r = E(instance, a.s)

\* A run of clx P { fx __init__(s) { s.k = 1 return 5 } } q = P() q.none has
\* bound q to an Instance whose field k is 1, although __init__ returned 5.
C10_Witness ==
    /\ source # 0
    /\ ~hung
    /\ Sources[source] = Src_init_returns
    /\ Environment_get(St, environment, <<"q">>).type = "INSTANCE"
    /\ Environment_get(St, environment, <<"q">>).cls.name = <<"P">>
    /\ heap[Environment_get(St, environment, <<"q">>).fields].store[<<"k">>] = Integer(1)

\* C4: after the text that calls the same counter closure twice, binding
\* the results to a and b, a is 1 and b is 2.
C4_SharedUpvalue ==
    (source # 0 /\ ~hung /\ Sources[source] = Src_counter) =>
        /\ errors = <<>>
        /\ Environment_get(St, environment, <<"a">>) = Integer(1)
        /\ Environment_get(St, environment, <<"b">>) = Integer(2)

Global(name) == Environment_get(St, environment, name)

\* C11: a Function applied to as many arguments as it has parameters
\* evaluates its body in a new frame whose outer frame is the one the
\* function was defined in; the frame holds the parameters and nothing else,
\* each bound to the argument at its position, and no frame there was is
\* changed by the binding; every other name resolves in the new frame as it
\* does in the frame of the definition, whatever the caller or an earlier
\* call has bound.  So f() called from g() reads the x of the top level and
\* not the x of g, does not see a y bound in g only, the c bound by h(5) is
\* not there for h(6) nor at the top level, and assigning to a parameter
\* leaves the caller's variable as it was.
C11_LexicalScoping ==
    /\ \A e \in 1..Len(heap) : \A x \in DOMAIN heap[e].store :
          heap[e].store[x].type = "FUNCTION" =>
              \A args \in ArgLists :
                  LET fn == heap[e].store[x]
                  IN  Len(args) = Len(fn.parameters) =>
                      \A f \in {new_enclosed_environment(St, fn.env)} :
                      \A B \in {BindParameters(f.s, f.env, fn.parameters, args)} :
                          /\ f.env \notin 1..Len(heap)
                          /\ B.heap[f.env].outer = fn.env
                          /\ \A o \in 1..Len(heap) : B.heap[o] = heap[o]
                          /\ DOMAIN B.heap[f.env].store =
                                 {fn.parameters[k] : k \in 1..Len(fn.parameters)}
                          /\ \A k \in 1..Len(args) :
                                 (\A j \in (k + 1)..Len(args) :
                                      fn.parameters[j] # fn.parameters[k]) =>
                                     B.heap[f.env].store[fn.parameters[k]] = args[k]
                          /\ \A o \in 1..Len(heap) : \A n \in DOMAIN heap[o].store :
                                 n \notin DOMAIN B.heap[f.env].store =>
                                     Environment_get(B, f.env, n) = Environment_get(St, fn.env, n)
                          /\ \A b \in {eval_node(fn.body, f.env, B)} :
                                 apply_user_function(fn, args, St) =
                                     IF b.val.type = "RETURN_VALUE" THEN E(b.val.value, b.s)
                                     ELSE b
    /\ Ran(Txt_scope) => result = Integer(1)
    /\ Ran(Txt_caller_only) => result = Error(<<"Identifier not found: ", <<"y">>>>)
    /\ Ran(Txt_local) =>
          /\ result = Error(<<"Identifier not found: ", <<"c">>>>)
          /\ Global(<<"u">>) = Integer(5)
          /\ Global(<<"v">>) = Integer(6)
          /\ Global(<<"a">>) = None
    /\ Ran(Txt_params) =>
          /\ result = Integer(1)
          /\ Global(<<"q">>) = Integer(2)

\* fx h(a) { c = a return c } u = h(5) v = h(6) c has been run: each of the
\* two calls has left a frame of its own, enclosed by the environment of the
\* session, with its own a and c, and c is not found at the top level.
C11_Witness ==
    /\ Ran(Txt_local)
    /\ is_error(result)
    /\ \A v \in {5, 6} :
          \E o \in 1..Len(heap) :
              /\ heap[o].outer = environment
              /\ DOMAIN heap[o].store = {<<"a">>, <<"c">>}
              /\ heap[o].store[<<"c">>] = Integer(v)
    /\ heap[environment].store[<<"h">>].type = "FUNCTION"

\* The names member access is tried with on an Instance: those of its
\* fields, those of the methods of its class and one that is neither.
AttributeNames(o) ==
    DOMAIN heap[o.fields].store
    \cup {o.cls.methods[k].key : k \in 1..Len(o.cls.methods)}
    \cup {<<"n","o","n","e">>}

\* C12: for an Instance o bound to a name and a name m, o.m is the field m
\* of o when o has one, whether or not the class has a method m, and leaves
\* everything as it is; else, when the class has a method m, it is a new
\* Function with the body and name of the method, closed over a new frame
\* that holds self = o and nothing else and is enclosed by the closure of
\* the method, and no frame there was is changed; else it is an Error.  The
\* parameters of a bound method are those of the method, less a leading
\* self.  In the text run, self is o in o.me(), p in p.me() and o again in
\* o.me().
C12_MemberAccess ==
    /\ \A e \in 1..Len(heap) : \A x \in DOMAIN heap[e].store :
          heap[e].store[x].type = "INSTANCE" =>
              LET o == heap[e].store[x]
                  fields == heap[o.fields].store
              IN  \A m \in AttributeNames(o) :
                  \A r \in {eval_node(MemberAccessExpression(Identifier(x), m), e, St)} :
                  \A method \in {Class_get_method(o.cls, m)} :
                      IF m \in DOMAIN fields THEN r = E(fields[m], St)
                      ELSE IF method # None
                      THEN /\ r.val = Function(method.parameters, method.body, Len(heap) + 1,
                                               method.name, next_id)
                           /\ r.s = [St EXCEPT !.heap = Append(heap, [store |-> (SELF :> o),
                                                                     outer |-> method.env]),
                                               !.next_id = next_id + 1]
                           /\ \A f \in {[method EXCEPT !.parameters = <<SELF>> \o @]} :
                                  create_bound_method(f, o, St) = r
                      ELSE is_error(r.val) /\ r.s = St
    /\ Ran(Txt_members) =>
          /\ Global(<<"w">>) = Integer(5)
          /\ Global(<<"t">>) = Integer(1)
          /\ SameObject(Global(<<"x">>), Global(<<"o">>))
          /\ SameObject(Global(<<"y">>), Global(<<"p">>))
          /\ SameObject(Global(<<"z">>), Global(<<"o">>))
          /\ ~SameObject(Global(<<"o">>), Global(<<"p">>))
          /\ result = Error(<<"Attribute '", <<"n","o","n","e">>, "' not found on ", <<"C">>,
                              " instance">>)

\* The text has been run: o has the field v and its class the method v,
\* p has no field, and me has been called on o, on p and on o again.
C12_Witness ==
    /\ Ran(Txt_members)
    /\ Global(<<"o">>).type = "INSTANCE"
    /\ DOMAIN heap[Global(<<"o">>).fields].store = {<<"v">>}
    /\ DOMAIN heap[Global(<<"p">>).fields].store = {}
    /\ Class_get_method(Global(<<"o">>).cls, <<"v">>) # None
    /\ Global(<<"z">>).type = "INSTANCE"

\* The names member assignment is tried with on an object: those bound in
\* the Environment it keeps, those of its methods and one that is new.
MemberNamesOf(obj) ==
    {<<"n","e","w">>}
    \cup (IF obj.type = "INSTANCE"
          THEN DOMAIN heap[obj.fields].store
               \cup {obj.cls.methods[k].key : k \in 1..Len(obj.cls.methods)}
          ELSE IF obj.type = "MODULE" THEN DOMAIN heap[obj.env].store
          ELSE IF obj.type = "CLASS" THEN {obj.methods[k].key : k \in 1..Len(obj.methods)}
          ELSE {})

\* The expressions whose value is assigned.
AssignedValues == {IntegerLiteral(9), StringLiteral(<<"a">>), NilLiteral, BooleanLiteral(FALSE)}

\* C13: for every object bound to a name x, every name f and value v, the
\* statement x.f = v yields v and changes the field f of that Instance to v
\* and nothing else when x is an Instance, x.f then yielding v; it yields an
\* Error and changes nothing when x is anything else.  In the text run, o.m
\* is 7 after o.m = 7 while p.m() still calls the method.
C13_MemberAssignment ==
    /\ \A e \in 1..Len(heap) : \A x \in DOMAIN heap[e].store :
          LET obj == heap[e].store[x]
          IN  \A f \in MemberNamesOf(obj) : \A vn \in AssignedValues :
              \A v \in {eval_node(vn, e, St).val} :
              \A r \in {eval_node(AssignStatement(MemberAccessExpression(Identifier(x), f), vn),
                                  e, St)} :
                  IF obj.type = "INSTANCE"
                  THEN /\ r.val = v
                       /\ r.s = [St EXCEPT !.heap[obj.fields].store =
                                    [n \in DOMAIN @ \cup {f} |-> IF n = f THEN v ELSE @[n]]]
                       /\ eval_node(MemberAccessExpression(Identifier(x), f), e, r.s)
                            = E(v, r.s)
                  ELSE /\ r.val = Error(<<"Cannot assign to member of ", obj.type>>)
                       /\ r.s = St
    /\ Ran(Txt_assign) =>
          /\ heap[Global(<<"o">>).fields].store = (<<"k">> :> Integer(3)) @@ (<<"m">> :> Integer(7))
          /\ DOMAIN heap[Global(<<"p">>).fields].store = {}
          /\ Global(<<"g">>) = Integer(7)
          /\ Global(<<"h">>) = Integer(1)
          /\ result = Error(<<"Cannot assign to member of ", "INTEGER">>)

\* The text has been run: an Instance with fields, an Instance without, a
\* Module, a Class, a Function, a Builtin, an Integer, a String and Nil are
\* bound in the environment of the session, and n.k = 1 has been refused.
C13_Witness ==
    /\ Ran(Txt_assign)
    /\ is_error(result)
    /\ {heap[environment].store[x].type : x \in DOMAIN heap[environment].store}
         = {"INSTANCE", "MODULE", "CLASS", "FUNCTION", "BUILTIN", "INTEGER", "STRING", "NIL"}
    /\ <<"m">> \in DOMAIN heap[Global(<<"o">>).fields].store

\* The operands `&&` and `||` are tried with.
LogicalOperands ==
    {BooleanLiteral(TRUE), BooleanLiteral(FALSE), NilLiteral, IntegerLiteral(0),
     IntegerLiteral(1), StringLiteral(<<>>), Identifier(<<"n","o","p","e">>),
     CallExpression(Identifier(<<"p","r","i","n","t">>), <<IntegerLiteral(1)>>)}

\* C14: a && b yields the value of a, in the state a left, when that value
\* is not truthy, and a || b does when it is truthy: b is not evaluated;
\* else they yield what b yields.  So false && print(1) yields false and
\* prints nothing, and true || nope yields true.
C14_ShortCircuit ==
    /\ Ran(Txt_and) => (result = ZEN_FALSE /\ stdout = <<>>)
    /\ Ran(Txt_or) => result = ZEN_TRUE
    /\ runs = 1 =>
          \A a \in LogicalOperands : \A b \in LogicalOperands :
          \A l \in {eval_node(a, environment, St)} :
              ~is_error(l.val) =>
                  /\ eval_node(InfixExpression(a, <<"&", "&">>, b), environment, St)
                       = IF ~is_truthy(l.val) THEN l ELSE eval_node(b, environment, l.s)
                  /\ eval_node(InfixExpression(a, <<"|", "|">>, b), environment, St)
                       = IF is_truthy(l.val) THEN l ELSE eval_node(b, environment, l.s)

\* The objects bound to a name or kept in a field, with some Integers,
\* Strings, the Booleans and Nil.
Values ==
    UNION {{heap[e].store[x] : x \in DOMAIN heap[e].store} : e \in 1..Len(heap)}
    \cup {Integer(0), Integer(1), String(<<>>), String(<<"s">>), ZEN_TRUE, ZEN_FALSE, NIL}

\* C15: for every two objects a and b, a == b is the Boolean true when
\* they have the same type and are Integers, Strings or Booleans of equal
\* value, or both Nil, or one and the same Function, Class, Instance,
\* Builtin or Module, and the Boolean false in every other case; b == a is
\* the same Boolean and a != b the other one.  In the text run, two
\* Instances of one class with the same fields are not equal, an Instance
\* equals itself, and a method taken twice from an Instance gives two
\* Functions that are not equal.
C15_GenericEquality ==
    /\ \A a \in Values : \A b \in Values :
          LET same == /\ a.type = b.type
                      /\ CASE a.type \in {"INTEGER", "STRING", "BOOLEAN"} -> a.value = b.value
                           [] a.type = "NIL" -> TRUE
                           [] a.type \in {"FUNCTION", "CLASS"} -> a.id = b.id
                           [] a.type = "INSTANCE" -> a.fields = b.fields
                           [] a.type = "MODULE" -> a.env = b.env
                           [] a.type = "BUILTIN" -> a.name = b.name
          IN  /\ apply_infix_operator(<<"=", "=">>, a, b) = Boolean(same)
              /\ apply_infix_operator(<<"=", "=">>, b, a) = Boolean(same)
              /\ apply_infix_operator(<<"!", "=">>, a, b) = Boolean(~same)
    /\ Ran(Txt_equal) =>
          /\ Global(<<"e">>) = ZEN_FALSE
          /\ Global(<<"i">>) = ZEN_TRUE
          /\ Global(<<"d">>) = ZEN_TRUE
          /\ Global(<<"j">>) = ZEN_FALSE
          /\ Global(<<"c">>) = ZEN_TRUE
          /\ Global(<<"n">>) = ZEN_TRUE
          /\ Global(<<"t">>) = ZEN_FALSE

\* The text has been run: a and b are two Instances of the class C, each
\* with the one field k = 1, and a == b has been found false.
C15_Witness ==
    /\ Ran(Txt_equal)
    /\ Global(<<"a">>).type = "INSTANCE"
    /\ Global(<<"a">>).fields # Global(<<"b">>).fields
    /\ Global(<<"a">>).cls = Global(<<"b">>).cls
    /\ heap[Global(<<"a">>).fields].store = heap[Global(<<"b">>).fields].store
    /\ heap[Global(<<"a">>).fields].store = (<<"k">> :> Integer(1))
    /\ Global(<<"e">>) = ZEN_FALSE

\* C16: !x is false for x true, true for x false and for Nil, and false for
\* every other object, the Integer 0 and the empty String among them; so
\* it is for each Boolean a literal, a comparison, an equality or bool()
\* yields.
C16_BangTruthTable ==
    /\ \A x \in Values :
          apply_bang_operator(x) =
              IF x.type = "BOOLEAN" THEN Boolean(~x.value)
              ELSE IF x.type = "NIL" THEN ZEN_TRUE
              ELSE ZEN_FALSE
    /\ \A k \in 1..Len(BangCases) :
          Ran(BangCases[k].text) => result = BangCases[k].value

\* !0 has been run and has yielded false, although is_truthy of the Integer
\* 0 is false.
C16_Witness ==
    /\ Ran(<<"!","0">>)
    /\ result = ZEN_FALSE
    /\ ~is_truthy(Integer(0))
    /\ program = Program(<<ExpressionStatement(PrefixExpression(<<"!">>, IntegerLiteral(0)))>>)

\* The expression a number is parsed to: a literal, under a prefix minus
\* when the number is negative.
NumberNode(n) ==
    IF n < 0 THEN PrefixExpression(<<"-">>, IntegerLiteral(0 - n)) ELSE IntegerLiteral(n)

\* What a / b is to yield: the Integer q with a = b * q + r, r being 0 or
\* of the sign of b and smaller than b in absolute value.
IsQuotient(obj, a, b) ==
    /\ obj.type = "INTEGER"
    /\ \E r \in Operands :
          /\ a = b * obj.value + r
          /\ IF b > 0 THEN r >= 0 /\ r < b ELSE r <= 0 /\ r > b

\* C17: for all Integers a and b, a / b is the Error "Division by zero"
\* when b is 0 and else the floor of the quotient; the text `a / b` is
\* parsed with the minus signs bound to the numbers and yields the same, and
\* `-7 / 2` yields -4.
C17_IntegerDivision ==
    /\ \A a \in Operands : \A b \in Operands :
          \A q \in {apply_integer_infix_operator(<<"/">>, Integer(a), Integer(b))} :
              IF b = 0 THEN q = Error(<<"Division by zero">>) ELSE IsQuotient(q, a, b)
    /\ (ppc = "returned" /\ runs = 1) =>
          \A a \in Operands : \A b \in Operands :
              tokens = tokenize(DivText(a, b)).tokens =>
                  /\ program = Program(<<ExpressionStatement(
                                   InfixExpression(NumberNode(a), <<"/">>, NumberNode(b)))>>)
                  /\ IF b = 0 THEN result = Error(<<"Division by zero">>)
                     ELSE IsQuotient(result, a, b)
    /\ Ran(<<"-","7"," ","/"," ","2">>) => result = Integer(0 - 4)

\* -7 / 2 has been run: it has been parsed as (-7) / 2 and has yielded -4.
C17_Witness ==
    /\ Ran(<<"-","7"," ","/"," ","2">>)
    /\ string(program) = <<"(","(","-","7",")"," ","/"," ","2",")">>
    /\ result = Integer(0 - 4)

(***************************************************************************)
(* Properties of the parser                                                *)
(***************************************************************************)
\* The level of a binary operator on the ladder.
Level(op) == CHOOSE k \in 1..Len(Ladder) : op \in Ladder[k]

\* The tokens are those of a text x1 op1 x2 op2 x3, of three names and two
\* binary operators.
TwoOperators ==
    /\ Len(tokens) = 6
    /\ \A k \in {1, 3, 5} : tokens[k].type = "IDENT"
    /\ \A k \in {2, 4} : \E j \in 1..Len(BinaryOperators) : tokens[k].literal = BinaryOperators[j]

\* The tokens are those of a text p x1 op x2, of a prefix operator, two
\* names and a binary operator.
PrefixAndOperator ==
    /\ Len(tokens) = 5
    /\ tokens[1].type \in {"MINUS", "NOT"}
    /\ \A k \in {2, 4} : tokens[k].type = "IDENT"
    /\ \E j \in 1..Len(BinaryOperators) : tokens[3].literal = BinaryOperators[j]

\* C18: parse_program returns for `a op1 b op2 c` the one expression
\* statement ((a op1 b) op2 c) when op1 is not below op2 on the ladder and
\* (a op1 (b op2 c)) when it is, and for `-a op b` and `!a op b` the
\* statement ((-a) op b), ((!a) op b), without any error.
C18_Precedence ==
    ppc = "returned" =>
        /\ TwoOperators =>
              LET a == Identifier(tokens[1].literal)
                  b == Identifier(tokens[3].literal)
                  c == Identifier(tokens[5].literal)
                  op1 == tokens[2].literal
                  op2 == tokens[4].literal
              IN  /\ parse_errors = <<>>
                  /\ program = Program(<<ExpressionStatement(
                         IF Level(op1) >= Level(op2)
                         THEN InfixExpression(InfixExpression(a, op1, b), op2, c)
                         ELSE InfixExpression(a, op1, InfixExpression(b, op2, c)))>>)
        /\ PrefixAndOperator =>
              /\ parse_errors = <<>>
              /\ program = Program(<<ExpressionStatement(
                     InfixExpression(PrefixExpression(tokens[1].literal,
                                                      Identifier(tokens[2].literal)),
                                     tokens[3].literal, Identifier(tokens[4].literal)))>>)

\* parse_program has returned on a - b - c, with the Program printed as
\* ((a - b) - c).
C18_Witness ==
    /\ ppc = "returned"
    /\ runs = 0
    /\ TwoOperators
    /\ tokens[2].literal = <<"-">>
    /\ tokens[4].literal = <<"-">>
    /\ string(program) = <<"(","(","a"," ","-"," ","b",")"," ","-"," ","c",")">>

\* C19: parse_program returns for a.b.c the one expression statement
\* MemberAccess(MemberAccess(a, b), c), and string() of that expression is
\* ((a.b).c).
C19_MemberChain ==
    (ppc = "returned" /\ tokens = TokensOf(Txt_chain)) =>
        /\ parse_errors = <<>>
        /\ program = Program(<<ExpressionStatement(
               MemberAccessExpression(MemberAccessExpression(Identifier(<<"a">>), <<"b">>),
                                      <<"c">>))>>)
        /\ string(program.statements[1].expression) = <<"(","(","a",".","b",")",".","c",")">>

(***************************************************************************)
(* Properties of assignment                                                *)
(***************************************************************************)
\* Expressions that are neither an Identifier nor a MemberAccess.
OtherTargets ==
    {SelfExpression, IntegerLiteral(5), StringLiteral(<<"s">>), NilLiteral,
     BooleanLiteral(TRUE),
     CallExpression(Identifier(<<"f">>), <<>>),
     InfixExpression(Identifier(<<"a">>), <<"+">>, Identifier(<<"b">>)),
     PrefixExpression(<<"-">>, Identifier(<<"a">>))}

\* C20: an assignment whose target is neither an Identifier nor a
\* MemberAccess yields an Error in every Environment, after the value has
\* been evaluated, and binds nothing: the state is the one the value left.
\* Each of the texts `self = 1`, `5 = 1`, `f() = 1`, `a + b = 1`, ... run in
\* a fresh session ends in a parse error or an Error and leaves every
\* Environment as it was; self = 1 in a method yields an Error and self is
\* still the Instance in the frame of the bound method.
C20_AssignmentTargets ==
    /\ \A t \in OtherTargets : \A vn \in AssignedValues : \A e \in 1..Len(heap) :
          \A r \in {eval_node(AssignStatement(t, vn), e, St)} :
              /\ is_error(r.val)
              /\ r.s = eval_node(vn, e, St).s
              /\ r.s.heap = heap
    /\ \A k \in 1..Len(TargetTexts) :
          Ran(TargetTexts[k]) =>
              /\ Len(errors) > 0 \/ is_error(result)
              /\ heap = ZenREPL.s.heap
    /\ Ran(Txt_self_assign) =>
          /\ result = Error(<<"Invalid assignment target: <class 'zen_ast.ast.",
                              "SelfExpression", "'>">>)
          /\ \A o \in 1..Len(heap) :
                SELF \in DOMAIN heap[o].store =>
                    SameObject(heap[o].store[SELF], Global(<<"o">>))

\* The text with self = 1 in a method has been run: the method has been
\* called, bound to the Instance o, and the assignment has been refused.
C20_Witness ==
    /\ Ran(Txt_self_assign)
    /\ is_error(result)
    /\ Global(<<"o">>).type = "INSTANCE"
    /\ \E o \in 1..Len(heap) : SELF \in DOMAIN heap[o].store
    /\ \E k \in 1..Len(program.statements[1].methods[1].body.statements) :
          LET s == program.statements[1].methods[1].body.statements[k]
          IN  s.kind = "AssignStatement" /\ s.target = SelfExpression

(***************************************************************************)
(* Properties of the loading stack and the module cache                    *)
(***************************************************************************)
\* The paths loads are tried with: those of ModulePaths and the modules
\* that load a module that fails, that load a module twice over two of
\* their own, or that fail after a module of theirs has loaded, and the
\* module on whose text parse_program does not return.
LoadPaths ==
    ModulePaths \o <<<<"a","f","t","e","r">>, <<"n","l","e","x">>, <<"n","n","o","p","e">>, <<"n","b","a","d">>, <<"d">>, <<"l">>, <<"r">>,
                   <<"h","a","n","g">>>>

\* The state of the session with an empty history of calls to write to.
Traced == [St EXCEPT !.hang = FALSE] @@ [calls |-> <<>>]

\* load(p) evaluated in the environment of the session, calls written down.
LoadOf(p) == eval_load_statement(LoadStatement(<<p>>), environment, Traced)

\* The indexes in calls of the calls of load_module that have not returned
\* after the first k entries, outermost first.
RECURSIVE InProgress(_, _)
InProgress(calls, k) ==
    IF k = 0 THEN <<>>
    ELSE Let([before \in {InProgress(calls, k - 1)} |->
             IF calls[k].op = "call" THEN Append(before, k)
             ELSE SubSeq(before, 1, Len(before) - 1)])

\* The entry of the call that entry k of calls, a return, returns from.
CallOf(calls, k) == Let([before \in {InProgress(calls, k - 1)} |-> before[Len(before)]])

\* The kinds of outcome of the calls of load_module in calls.
Outcome(val) ==
    IF val.type = "MODULE" THEN "module"
    ELSE IF val.type # "ERROR" THEN "other"
    ELSE IF startswith(val.message, <<"Module not found: ">>) THEN "not found"
    ELSE IF startswith(val.message, <<"Circular import detected: ">>) THEN "circular"
    ELSE IF startswith(val.message, <<"Parse errors in ">>) THEN "parse errors"
    ELSE IF startswith(val.message, <<"Error loading module ">>) THEN "exception"
    ELSE "runtime error"

\* C21: every call of load_module that returns, with a Module, the cached
\* Module or an Error of any kind, leaves the loading stack as it was when
\* the call began, nested calls included; between two runs of the session
\* no load is in progress and the stack is empty.
C21_LoadingStackCleanup ==
    /\ ~hung => loading_stack = <<>>
    /\ \A i \in 1..Len(LoadPaths) :
           \A r \in {LoadOf(LoadPaths[i])} :
               ~r.s.hang =>
               /\ r.s.loading_stack = loading_stack
               /\ Len(r.s.calls) >= 2
               /\ \A k \in 1..Len(r.s.calls) :
                      r.s.calls[k].op = "return" =>
                          \A c \in {CallOf(r.s.calls, k)} :
                              /\ r.s.calls[c].op = "call"
                              /\ r.s.calls[c].path = r.s.calls[k].path
                              /\ r.s.calls[k].loading_stack = r.s.calls[c].loading_stack

\* A run has loaded err, whose top level ends in a runtime Error after the
\* file was opened, and nothing is left in flight.
C21_Witness ==
    /\ source # 0
    /\ Sources[source] = Src_err
    /\ result = Error(<<"Identifier not found: ", <<"n","o","p","e">>>>)
    /\ \E k \in 1..Len(opened) : opened[k].module_path = <<"e","r","r">>
    /\ loading_stack = <<>>

(***************************************************************************)
(* Properties of environments                                              *)
(***************************************************************************)
\* The frames from e outwards, e first.
RECURSIVE Chain(_)
Chain(e) == IF e = 0 THEN <<>> ELSE <<e>> \o Chain(heap[e].outer)

\* The frames of the chain of e that bind name, innermost first.
Binders(e, name) ==
    SelectSeq(Chain(e), LAMBDA f : name \in DOMAIN heap[f].store)

\* The heap H is the heap there is but for the name at frame f, which is
\* bound to value.
OnlyWritten(H, f, name, value) ==
    /\ Len(H) = Len(heap)
    /\ \A o \in 1..Len(heap) : o # f => H[o] = heap[o]
    /\ H[f].outer = heap[f].outer
    /\ DOMAIN H[f].store = DOMAIN heap[f].store \cup {name}
    /\ H[f].store[name] = value
    /\ \A n \in DOMAIN heap[f].store : n # name => H[f].store[n] = heap[f].store[n]

\* C22: set and define on frame e write the name in e's own store and
\* nothing else; after it get on e gives the value written, and so does get
\* on every frame whose chain reaches e before a frame that binds the name,
\* the frames enclosed by e among them, whatever the frames outside e bind;
\* get on a frame outside e gives what it gave before; get of a name that
\* no frame of the chain binds gives None.
C22_SetDefineGet ==
    \A e \in 1..Len(heap) : \A name \in EnvNames :
        /\ Binders(e, name) = <<>> => Environment_get(St, e, name) = None
        /\ \A value \in EnvValues :
           \A W \in {Environment_set(St, e, name, value),
                     Environment_define(St, e, name, value)} :
               /\ OnlyWritten(W.heap, e, name, value)
               /\ Environment_get(W, e, name) = value
               /\ \A f \in 1..Len(heap) :
                      /\ (heap[f].outer = e /\ name \notin DOMAIN heap[f].store) =>
                             Environment_get(W, f, name) = value
                      /\ (Binders(f, name) # <<>> /\ Binders(f, name)[1] = e) =>
                             Environment_get(W, f, name) = value
                      /\ (\E k \in 1..Len(Chain(f)) :
                              /\ Chain(f)[k] = e
                              /\ \A j \in 1..(k - 1) :
                                     name \notin DOMAIN heap[Chain(f)[j]].store) =>
                             Environment_get(W, f, name) = value
               /\ \A k \in 2..Len(Chain(e)) :
                      Environment_get(W, Chain(e)[k], name)
                          = Environment_get(St, Chain(e)[k], name)

\* A frame binds x to 2, the frame outside it binds x to 1 and a frame
\* enclosed by it does not bind x.
C22_Witness ==
    \E e \in 1..Len(heap) : \E f \in 1..Len(heap) :
        /\ heap[f].outer = e
        /\ heap[e].outer # 0
        /\ <<"x">> \in DOMAIN heap[e].store
        /\ <<"x">> \in DOMAIN heap[heap[e].outer].store
        /\ <<"x">> \notin DOMAIN heap[f].store
        /\ heap[e].store[<<"x">>] = Integer(2)
        /\ heap[heap[e].outer].store[<<"x">>] = Integer(1)
        /\ Environment_get(St, f, <<"x">>) = Integer(2)

\* C23: update on frame e writes the name in one frame and nothing else:
\* the innermost frame of the chain of e that binds the name, returning
\* True, or e itself when no frame of the chain binds it, returning False;
\* after it get on e gives the value written.
C23_Update ==
    \A e \in 1..Len(heap) : \A name \in EnvNames : \A value \in EnvValues :
        \A r \in {Environment_update(St, e, name, value)} :
        \A found \in {Binders(e, name)} :
            /\ r.val = (found # <<>>)
            /\ OnlyWritten(r.s.heap, IF found # <<>> THEN found[1] ELSE e, name, value)
            /\ Environment_get(r.s, e, name) = value
            /\ r.s = [St EXCEPT !.heap = r.s.heap]

\* Of three frames one inside the other the outermost alone binds x, so
\* that update on the innermost writes two frames out.
C23_Witness ==
    \E e \in 1..Len(heap) :
        /\ Len(Chain(e)) = 3
        /\ Binders(e, <<"x">>) = <<Chain(e)[3]>>
        /\ Environment_update(St, e, <<"x">>, Integer(2)).val
        /\ Environment_update(St, e, <<"x">>, Integer(2)).s.heap[Chain(e)[3]].store[<<"x">>]
               = Integer(2)
        /\ heap[Chain(e)[3]].store[<<"x">>] = Integer(2)

\* The paths of the entries idx of calls.
PathsOf(calls, idx) == [j \in 1..Len(idx) |-> calls[idx[j]].path]

\* No entry of the sequence occurs twice.
NoDuplicates(seq) == \A i \in 1..Len(seq) : \A j \in 1..Len(seq) : seq[i] = seq[j] => i = j

\* The texts of Sources that are one load and nothing else.
LoadTexts == {Src_a, Src_c, Src_s, Src_err, Src_hang}

\* C24: at every call of load_module and at every return from one the
\* loading stack holds no path twice and is the list of the paths of the
\* calls in progress that are loading a file, outermost first; its depth is
\* at most the number of distinct paths loads have named so far, the text
\* the session runs counted with the files; and every load returns, also
\* where the files load one another in a cycle, so that a run whose text is
\* a load ends.
C24_LoadingStackInvariant ==
    /\ NoDuplicates(loading_stack)
    /\ (source # 0 /\ Sources[source] \in LoadTexts) => ~hung
    /\ \A i \in 1..Len(LoadPaths) :
           \A r \in {LoadOf(LoadPaths[i])} :
               ~r.s.hang =>
               /\ InProgress(r.s.calls, Len(r.s.calls)) = <<>>
               /\ \A k \in 1..Len(r.s.calls) :
                      \A stack \in {r.s.calls[k].loading_stack} :
                          /\ NoDuplicates(stack)
                          /\ stack = PathsOf(r.s.calls,
                                             IF r.s.calls[k].op = "call"
                                             THEN InProgress(r.s.calls, k - 1)
                                             ELSE InProgress(r.s.calls, k))
                          /\ Len(stack) <= Cardinality({r.s.calls[j].path : j \in 1..k})

\* C25: a call of load_module answers "Circular import detected" for its
\* path only when a call for that path is in progress around it, and every
\* such Error a call returns was made that way by a call inside it or by
\* itself; so the second load of a module two modules load, the load of a
\* cached module and the load of a module whose earlier load failed are not
\* answered with it.
C25_NoFalseCircular ==
    \A i \in 1..Len(LoadPaths) :
        \A r \in {LoadOf(LoadPaths[i])} :
            ~r.s.hang =>
            \A k \in 1..Len(r.s.calls) :
                (r.s.calls[k].op = "return" /\ Outcome(r.s.calls[k].val) = "circular") =>
                    \A c \in {CallOf(r.s.calls, k)} :
                    \A around \in {PathsOf(r.s.calls, InProgress(r.s.calls, c - 1))} :
                        IF c = k - 1
                        THEN /\ r.s.calls[k].val =
                                    Error(<<"Circular import detected: ", r.s.calls[k].path>>)
                             /\ \E j \in 1..Len(around) : around[j] = r.s.calls[k].path
                        ELSE \E j \in (c + 1)..(k - 1) :
                                /\ r.s.calls[j].op = "return"
                                /\ r.s.calls[j].val = r.s.calls[k].val

\* The file of err has been opened in two runs of the session, and the
\* second load ended as the first did, in the runtime Error of its text.
C25_Witness ==
    /\ runs = 2
    /\ source # 0
    /\ Sources[source] = Src_err
    /\ Cardinality({k \in 1..Len(opened) : opened[k].module_path = <<"e","r","r">>}) = 2
    /\ Outcome(result) = "runtime error"
    /\ loading_stack = <<>>

\* The number of times the file of path p has been opened in state S.
Opens(S, p) == Cardinality({k \in 1..Len(S.opened) : S.opened[k].module_path = p})

\* C26: when the load of p returns an Error, p is not in the module cache
\* and the environment the load was for is as it was, without a binding
\* for p's short name if it had none; the modules cached before stay
\* cached, and so does every module a call inside the load has returned;
\* loading p once more opens the file of p as often as the first load did
\* and evaluates it to the same Error.
C26_FailedLoadLeavesNoTrace ==
    \A i \in 1..Len(LoadPaths) :
        \A p \in {LoadPaths[i]} :
        \A r \in {LoadOf(p)} :
            (~r.s.hang /\ is_error(r.val)) =>
                /\ get_cached_module(r.s, p) = None
                /\ get_cached_module(St, p) = None
                /\ r.s.heap[environment] = heap[environment]
                /\ (Global(extract_module_name(p)) = None =>
                        Environment_get(r.s, environment, extract_module_name(p)) = None)
                /\ \A j \in 1..Len(loaded_modules) :
                       get_cached_module(r.s, loaded_modules[j].key) = loaded_modules[j].val
                /\ \A k \in 1..Len(r.s.calls) :
                       (r.s.calls[k].op = "return" /\ r.s.calls[k].val.type = "MODULE") =>
                           get_cached_module(r.s, r.s.calls[k].path) = r.s.calls[k].val
                /\ \A again \in {eval_load_statement(LoadStatement(<<p>>), environment, r.s)} :
                       /\ ~again.s.hang
                       /\ again.val = r.val
                       /\ Opens(again.s, p) - Opens(r.s, p) = Opens(r.s, p) - Opens(St, p)
                       /\ (resolve_module_path(Files, CWD, p, CWD) # None
                               /\ ~is_loading(St, p)) => Opens(again.s, p) > Opens(r.s, p)

\* A run has loaded err: the file was opened and evaluated to an Error, and
\* neither the cache nor the environment of the session holds err.
C26_Witness ==
    /\ runs = 1
    /\ source # 0
    /\ Sources[source] = Src_err
    /\ is_error(result)
    /\ Opens(St, <<"e","r","r">>) = 1
    /\ get_cached_module(St, <<"e","r","r">>) = None
    /\ Global(<<"e","r","r">>) = None

(***************************************************************************)
(* Properties of module path resolution                                    *)
(***************************************************************************)
\* The search roots in the order they are taken: the working directory,
\* then the fixed list.
Roots == <<CWD, <<".">>, <<".","/","e","x","a","m","p","l","e","s">>, <<".","/","l","i","b">>, <<".","/","m","o","d","u","l","e","s">>>>

\* The file a candidate of a root names, and whether it is there.
FileOf(root, candidate) == AbsPath(CWD, PathJoin(root, candidate))

\* (i, j) comes before (i2, j2): roots first, candidates within a root.
Before(i, j, i2, j2) == i < i2 \/ (i = i2 /\ j < j2)

\* The outcome of resolving with the candidates given: the first file
\* there is, roots in order and candidates in order within a root, or None.
FirstOf(candidates, file_path) ==
    LET there == {ij \in (1..Len(Roots)) \X (1..Len(candidates)) :
                      FileOf(Roots[ij[1]], candidates[ij[2]]) \in DOMAIN disk}
    IN  IF there = {} THEN file_path = None
        ELSE \E ij \in there :
                 /\ \A other \in there : ~Before(other[1], other[2], ij[1], ij[2])
                 /\ file_path = [type |-> "str",
                                 value |-> FileOf(Roots[ij[1]], candidates[ij[2]])]

\* C27 as stated: the candidates of every root are the literal path p,
\* p.zen, p/main.zen and p/index.zen, the result is the first of them that
\* is a file, and "Module not found" is the Error when there is none.
C27_LiteralPathFirst ==
    resolved # None =>
        \A p \in {resolved.module_path} :
            /\ FirstOf(<<p, p \o <<".","z","e","n">>, p \o <<"/","m","a","i","n",".","z","e","n">>, p \o <<"/","i","n","d","e","x",".","z","e","n">>>>,
                       resolved.file_path)
            /\ (resolved.file_path = None) =
                   (resolved.val = Error(<<"Module not found: ", p>>))

\* C27, amended: the candidates of every root are the literal path p alone
\* when p ends with ".zen", and p.zen, p/main.zen and p/index.zen otherwise
\* (the literal path is then not tried); the result is the first candidate
\* that is a file, roots in list order and candidates in order within a
\* root, and when there is none the load yields "Module not found: p".
C27_ModulePathResolution ==
    resolved # None =>
        \A p \in {resolved.module_path} :
            /\ FirstOf(IF endswith(p, <<".","z","e","n">>) THEN <<p>>
                       ELSE <<p \o <<".","z","e","n">>, p \o <<"/","m","a","i","n",".","z","e","n">>, p \o <<"/","i","n","d","e","x",".","z","e","n">>>>,
                       resolved.file_path)
            /\ (resolved.file_path = None) =
                   (resolved.val = Error(<<"Module not found: ", p>>))
            /\ resolved.file_path = None =>
                   \A r \in {load_module(p, environment, [St EXCEPT !.hang = FALSE])} :
                       (resolve_module_path(Files, CWD, p, CWD) = None) =>
                           r.val = resolved.val

\* q is resolved where q/index.zen of the working directory and q.zen of
\* ./examples are files: the root comes before the candidate.
C27_Witness ==
    /\ resolved # None
    /\ resolved.module_path = <<"q">>
    /\ DOMAIN disk = {<<"/","w","/","q","/","i","n","d","e","x",".","z","e","n">>, <<"/","w","/","e","x","a","m","p","l","e","s","/","q",".","z","e","n">>}
    /\ resolved.file_path = [type |-> "str", value |-> <<"/","w","/","q","/","i","n","d","e","x",".","z","e","n">>]

(***************************************************************************)
(* Properties of return without a value                                    *)
(***************************************************************************)
\* C28: of fx f() { return } x = 1 the parser makes, without errors, the
\* two top-level statements Function f whose body holds only a Return
\* without value, and Assign x = 1: the statements parsed so far are the
\* first of these two, and the program returned holds both.
C28_BareReturn ==
    \A expected \in {<<FunctionStatement(<<"f">>, <<>>,
                                         BlockStatement(<<ReturnStatement(None)>>)),
                       AssignStatement(Identifier(<<"x">>), IntegerLiteral(1))>>} :
        tokens = TokensOf(Txt_bare_return) =>
            /\ parse_errors = <<>>
            /\ Len(statements) <= 2
            /\ \A k \in 1..Len(statements) : statements[k] = expected[k]
            /\ ppc = "returned" => program = Program(expected)

(***************************************************************************)
(* Properties of the lexer                                                 *)
(***************************************************************************)
\* The step adds a token to those of the lexer.
Emits == Len(regex_lexer'.tokens) = Len(regex_lexer.tokens) + 1

\* The token the step adds.
Emitted == regex_lexer'.tokens[Len(regex_lexer'.tokens)]

\* The characters between the quotes of the string literal the step matches.
ContentMatched ==
    Slice(regex_lexer.input_text, regex_lexer.position + 1, regex_lexer'.position - 1)

\* The content of a string literal read from the left: what each
\* character, or each backslash with the character after it, contributes;
\* kept is what a backslash contributes before a character that is none
\* of n, t, r, backslash and quote (that character is kept after it).
RECURSIVE Contributions(_, _)
Contributions(content, kept) ==
    IF content = <<>> THEN <<>>
    ELSE IF content[1] = "\\" /\ Len(content) >= 2
    THEN (CASE content[2] = "n" -> <<"\n">>
            [] content[2] = "t" -> <<"\t">>
            [] content[2] = "r" -> <<"\r">>
            [] content[2] = "\\" -> <<"\\">>
            [] content[2] = "\"" -> <<"\"">>
            [] OTHER -> kept \o <<content[2]>>)
         \o Contributions(SubSeq(content, 3, Len(content)), kept)
    ELSE <<content[1]>> \o Contributions(Tail(content), kept)

\* C29 as stated: the literal of a STRING token is the content of the
\* string literal with \n, \t, \r, \\ and \" read as LF, TAB, CR, backslash
\* and quote, and a backslash before any other character c dropped.
C29_UnknownEscapeDropsBackslash ==
    [][(Emits /\ Emitted.type = "STRING") =>
           Emitted.literal = Contributions(ContentMatched, <<>>)]_vars

\* C29, amended: the literal of a STRING token is the content of the
\* string literal with \n, \t, \r, \\ and \" read, from left to right, as
\* LF, TAB, CR, backslash and quote; a backslash before any other
\* character c contributes the backslash and c, both kept as they are.
C29_StringEscapes ==
    [][(Emits /\ Emitted.type = "STRING") =>
           Emitted.literal = Contributions(ContentMatched, <<"\\">>)]_vars

\* "t\q" has been read: the literal is t, backslash, q.
C29_Witness ==
    /\ regex_lexer # None
    /\ regex_lexer.input_text = <<"\"", "t", "\\", "q", "\"">>
    /\ regex_lexer.returned
    /\ Len(regex_lexer.tokens) = 2
    /\ regex_lexer.tokens[1].type = "STRING"
    /\ regex_lexer.tokens[1].literal = <<"t", "\\", "q">>

\* The number of newline characters among the first n characters of text.
RECURSIVE Newlines(_, _)
Newlines(text, n) ==
    IF n = 0 THEN 0
    ELSE Newlines(text, n - 1) + (IF text[n] = "\n" THEN 1 ELSE 0)

\* The number of characters between the last newline among the first n
\* characters of text (or the start of text) and character n + 1.
RECURSIVE SinceNewline(_, _)
SinceNewline(text, n) ==
    IF n = 0 \/ text[n] = "\n" THEN 0 ELSE SinceNewline(text, n - 1) + 1

\* C30: in a text that tokenizes without a lexer error, the line of every
\* token emitted is 1 plus the number of newline characters before the
\* token's first character, and its column is 1 plus the number of
\* characters between the last newline before it (or the start of the
\* text) and its first character, also after a block comment or a string
\* literal of more than one line.
C30_TokenPositions ==
    [][(Emits /\ Emitted.type # "EOF" /\ ~tokenize(regex_lexer.input_text).raised) =>
           /\ Emitted.line = 1 + Newlines(regex_lexer.input_text, regex_lexer.position)
           /\ Emitted.column = 1 + SinceNewline(regex_lexer.input_text, regex_lexer.position)
      ]_vars

====
